---- MODULE Spec2Model ----
(***************************************************************************)
(* Model of the fraud dashboard's data pipeline (ITMO_lastTask/            *)
(* plotlyDash.py): preprocess_data, filter_data, the two Dash callbacks    *)
(* load_full_data_to_store and update_graphs, and the module-level startup *)
(* sample load.                                                            *)
(*                                                                         *)
(* A pandas DataFrame is a record [cols, date_dtype, rows]: the set of its *)
(* column labels, the dtype of its 'date' column ("object" for Python      *)
(* date objects, "datetime64" after pd.to_datetime / pd.read_json, "iso"   *)
(* inside a JSON document, "none" when there is no such column) and the    *)
(* sequence of its rows.  Floating point amounts are exact rationals       *)
(* [nan, n, d]; NaN is the value with nan = TRUE.                          *)
(***************************************************************************)
EXTENDS Integers, Sequences, FiniteSets, TLC

\* ------------------------------------------------------------------ bounds

\* Longest record table handed to preprocess_data in the pipeline specification.
MaxRows == 2
\* Most row groups in the transaction file of the dashboard specification.
MaxGroups == 2
\* Most clicks on the load-full-data button.
MaxClicks == 2
\* Most row groups in the transaction file of the sampler specification.
MaxSampleGroups == 4
\* Most rows of one device in the tables of the device-ranking specification.
MaxDeviceRows == 6
\* Most freely chosen rows in the tables of the chart specification.
MaxChartRows == 3
\* Longest record table of the join specification.
MaxJoinRows == 2
\* Most exchanges the model answers in the chatbot specification.
MaxExchanges == 6
\* Most exchanges the model answers in the Telegram specification.
MaxTelegramExchanges == 3

\* ----------------------------------------------------------------- numbers

Abs(x) == IF x < 0 THEN -x ELSE x

RECURSIVE GCD(_, _)
GCD(a, b) == IF b = 0 THEN a ELSE GCD(b, a % b)

NaN == [nan |-> TRUE, n |-> 0, d |-> 1]

\* The rational n/d in lowest terms with a positive denominator (d # 0).
Rat(n, d) ==
    LET g == GCD(Abs(n), Abs(d))
        s == IF d < 0 THEN -1 ELSE 1
    IN  [nan |-> FALSE, n |-> (s * n) \div g, d |-> (s * d) \div g]

Zero == Rat(0, 1)

\* pd.isna / pd.notna on a scalar.
isna(x) == x.nan
notna(x) == ~x.nan

\* Variant of Mul that divides by its second factor.
Mul_Divides(x, y) ==
    IF x.nan \/ y.nan THEN NaN
    ELSE IF y.n = 0 THEN (IF x.n = 0 THEN NaN ELSE [nan |-> FALSE, n |-> 1, d |-> 0])
    ELSE LET n == x.n * y.d
             d == x.d * y.n
             g == GCD(Abs(n), Abs(d))
             s == IF d < 0 THEN -1 ELSE 1
         IN  [nan |-> FALSE, n |-> (s * n) \div g, d |-> (s * d) \div g]

\* float * float: NaN propagates.
Mul(x, y) == IF x.nan \/ y.nan THEN NaN ELSE Rat(x.n * y.n, x.d * y.d)

\* Infinity, the quotient of a non-zero float64 by zero.
Inf == [nan |-> FALSE, n |-> 1, d |-> 0]

\* float / float: NaN propagates, x / 0 is infinite and 0 / 0 undefined.
Div(x, y) ==
    IF x.nan \/ y.nan THEN NaN
    ELSE IF y.n = 0 THEN (IF x.n = 0 THEN NaN ELSE Inf)
    ELSE Rat(x.n * y.d, x.d * y.n)

\* float + float of two defined values.
Add(x, y) == Rat(x.n * y.d + y.n * x.d, x.d * y.d)

\* ------------------------------------------------------------------ tables

Range(s) == {s[i] : i \in 1..Len(s)}

\* pd.DataFrame(): no columns, no rows.
EmptyDF == [cols |-> {}, date_dtype |-> "none", rows |-> <<>>]

\* DataFrame.empty: some axis has length 0.
IsEmpty(df) == df.cols = {} \/ Len(df.rows) = 0

\* Flattening of a sequence of sequences (row-wise concatenation).
RECURSIVE Flatten(_)
Flatten(ss) == IF ss = <<>> THEN <<>> ELSE Head(ss) \o Flatten(Tail(ss))

\* The columns of a raw transaction record as read from the transaction file.
RawCols ==
    {"timestamp", "amount", "currency", "country", "city", "vendor_category",
     "channel", "is_weekend", "is_fraud", "customer_id", "device",
     "last_hour_activity"}

\* The currency columns of the exchange-rate file.
RateCurrencies == {"EUR", "GBP"}

RateCols == {"date"} \cup RateCurrencies

\* ------------------------------------------------------------- preprocess

\* Variant of FloorSecond that moves every timestamp to the next hour mark.
FloorSecond_Shift(ts) == [ts EXCEPT !.ns = 0, !.hour = @ + 1]

\* .dt.floor('s') of a timestamp: the sub-second part is dropped.
FloorSecond(ts) == [ts EXCEPT !.ns = 0]

\* Variant of MergeLeft that drops a left row no right row matches (how='inner').
RECURSIVE MergeLeft_Inner(_, _, _)
MergeLeft_Inner(rows, right, rcols) ==
    IF rows = <<>> THEN <<>>
    ELSE LET r == Head(rows)
             m == SelectSeq(right, LAMBDA x : x.date = r.date)
         IN  [i \in 1..Len(m) |-> [rates |-> m[i].rates] @@ r]
                 \o MergeLeft_Inner(Tail(rows), right, rcols)

\* The rate columns a left row gets when no right row matches its date.
NoRates(cols) == [c \in cols \ {"date"} |-> NaN]

\* DataFrame.merge(right, how='left', on='date') on the row sequences: every left
\* row once per right row with the same date, in left order; a left row with no
\* match is kept once with undefined rate columns.
RECURSIVE MergeLeft(_, _, _)
MergeLeft(rows, right, rcols) ==
    IF rows = <<>> THEN <<>>
    ELSE LET r == Head(rows)
             m == SelectSeq(right, LAMBDA x : x.date = r.date)
             out == IF m = <<>>
                    THEN << [rates |-> NoRates(rcols)] @@ r >>
                    ELSE [i \in 1..Len(m) |-> [rates |-> m[i].rates] @@ r]
         IN  out \o MergeLeft(Tail(rows), right, rcols)

\* Variant of convert_to_usd without the test for a zero rate.
convert_to_usd_NoZeroTest(row, df2cols) ==
    LET curr == row.currency
    IN  IF curr \in df2cols
        THEN LET rate == row.rates[curr]
             IN  IF isna(rate) THEN NaN ELSE Div(row.amount, rate)
        ELSE NaN

\* convert_to_usd of one merged row; df2cols are the columns of the rate table.
convert_to_usd(row, df2cols) ==
    LET curr == row.currency
    IN  IF curr \in df2cols
        THEN LET rate == row.rates[curr]
             IN  IF isna(rate) \/ rate.n = 0 THEN NaN ELSE Div(row.amount, rate)
        ELSE NaN

\* pd.read_parquet('historical_currency_exchange.parquet'): raises when the file
\* cannot be read.
ReadRateFile(rf) == [raised |-> ~rf.ok, df |-> rf.table]

\* The five fields of the last_hour_activity summary.
ActivityFields ==
    {"num_transactions", "total_amount", "unique_merchants", "unique_countries",
     "max_single_amount"}

\* A last_hour_activity value that is a dict with the five fields, and one that
\* is not a dict (None, a string, a number).
Dict(d) == [is_dict |-> TRUE, d |-> d]
NotDict == [is_dict |-> FALSE, d |-> <<>>]

\* Variant of safe_extract whose default is zero for every field.
safe_extract_Zero(x) ==
    IF x.is_dict THEN x ELSE Dict([k \in ActivityFields |-> Zero])

\* safe_extract(x): x itself when it is a dict, the dict of NaN defaults if not.
safe_extract(x) ==
    IF x.is_dict THEN x ELSE Dict([k \in ActivityFields |-> NaN])

\* Lines 34-36: pd.json_normalize of the extracted dicts, one row per record in
\* record order, joined column-wise to the records by position.
json_normalize(rows) ==
    [i \in 1..Len(rows) |->
        LET x == safe_extract(rows[i].last_hour_activity)
        IN  [k \in ActivityFields |-> x.d[k]] @@ rows[i]]

\* The columns of the enriched table.
PreprocessedCols(df2cols) ==
    RawCols \cup ActivityFields \cup {"date", "index", "amount_usd", "hour"}
        \cup df2cols

\* preprocess_data(df) with the rate file rf on disk.  The result holds the two
\* returned tables, whether the call raised, and arg, the caller's table object
\* as the call leaves it (the timestamp column is assigned in place before df is
\* rebound to the concatenated copy).
preprocess_data(df, rf) ==
    IF IsEmpty(df)
    THEN [raised |-> FALSE, df |-> df, df2 |-> EmptyDF, arg |-> df]
    ELSE
    LET floored == [i \in 1..Len(df.rows) |->
                       [df.rows[i] EXCEPT !.timestamp = FloorSecond(@)]]
        arg     == [df EXCEPT !.rows = floored]
        flat    == json_normalize(floored)
        dated   == [i \in 1..Len(flat) |->
                       [date |-> flat[i].timestamp.day] @@ flat[i]]
        rd      == ReadRateFile(rf)
        df2     == rd.df
        fail    == [raised |-> TRUE, df |-> EmptyDF, df2 |-> EmptyDF, arg |-> arg]
    IN  IF rd.raised THEN fail
        ELSE IF "date" \notin df2.cols \/ df2.date_dtype # "object" THEN fail
        ELSE
        LET merged == MergeLeft(dated, df2.rows, df2.cols)
            rows   == [i \in 1..Len(merged) |->
                          [amount_usd |-> convert_to_usd(merged[i], df2.cols),
                           hour |-> merged[i].timestamp.hour] @@ merged[i]]
        IN  [raised |-> FALSE,
             df |-> [cols |-> PreprocessedCols(df2.cols),
                     date_dtype |-> "object", rows |-> rows],
             df2 |-> df2, arg |-> arg]

\* ------------------------------------------------------------ filter_data

\* A multi-select filter value: None, or a list of allowed values.
None == [none |-> TRUE, vals |-> <<>>]
List(s) == [none |-> FALSE, vals |-> s]

\* Variant of Active that takes an empty list for a restriction.
Active_NotNone(f) == ~f.none

\* "x and len(x) > 0" / "x is not None and len(x) > 0".
Active(f) == ~f.none /\ Len(f.vals) > 0

\* The six filter columns in the order filter_data applies them.
FilterCols ==
    <<"vendor_category", "channel", "country", "city", "is_weekend", "is_fraud">>

\* Variant of IsinRows that keeps the rows isin rejects.
IsinRows_Complement(rows, col, vals) ==
    SelectSeq(rows, LAMBDA r : r[col] \notin Range(vals))

\* dff[dff[col].isin(vals)] on the row sequence.
IsinRows(rows, col, vals) == SelectSeq(rows, LAMBDA r : r[col] \in Range(vals))

\* Lines 640-651: the active predicates applied one after the other.  f maps a
\* filter column to its filter value.  Selecting a column the table does not
\* have raises KeyError.
RECURSIVE ApplyFilters(_, _, _, _)
ApplyFilters(cols, rows, f, k) ==
    IF k > Len(FilterCols) THEN [raised |-> FALSE, rows |-> rows]
    ELSE LET c == FilterCols[k]
         IN  IF ~Active(f[c]) THEN ApplyFilters(cols, rows, f, k + 1)
             ELSE IF c \notin cols THEN [raised |-> TRUE, rows |-> <<>>]
             ELSE ApplyFilters(cols, IsinRows(rows, c, f[c].vals), f, k + 1)

\* pd.to_datetime on the 'date' column of a table.
ToDatetime(df) == [df EXCEPT !.date_dtype = "datetime64"]

\* Lines 658-663: the left merge with df2[['date', target]] and the row-wise
\* product; the merged-in column is target_rate.
RECURSIVE MergeTarget(_, _, _)
MergeTarget(rows, right, target) ==
    IF rows = <<>> THEN <<>>
    ELSE LET r == Head(rows)
             m == SelectSeq(right, LAMBDA x : x.date = r.date)
             conv(rate) == IF notna(rate) THEN Mul(r.amount_usd, rate) ELSE NaN
             out == IF m = <<>>
                    THEN << [target_rate |-> NaN, amount_converted |-> NaN] @@ r >>
                    ELSE [i \in 1..Len(m) |->
                             [target_rate |-> m[i].rates[target],
                              amount_converted |-> conv(m[i].rates[target])] @@ r]
         IN  out \o MergeTarget(Tail(rows), right, target)

\* Variant of ConvertBranch without the exemption of USD.
ConvertBranch_NoUsdTest(df2, target_currency) ==
    target_currency # "" /\ ~IsEmpty(df2)

\* Whether filter_data takes the conversion branch (line 654).
ConvertBranch(df2, target_currency) ==
    target_currency # "" /\ target_currency # "USD" /\ ~IsEmpty(df2)

\* Variant of CallerTable in which dff is the caller's table itself.
CallerTable_NoCopy(df, dff) == dff

\* The caller's table df once filter_data has built dff: dff starts as df.copy()
\* (line 639), so no assignment to dff reaches df.
CallerTable(df, dff) == df

\* filter_data(df, df2, ..., target_currency).  The result holds the returned
\* table dff, whether the call raised, and the two argument objects as the call
\* leaves them.
filter_data(df, df2, f, target_currency) ==
    LET sel  == ApplyFilters(df.cols, df.rows, f, 1)
        fail(d2) == [raised |-> TRUE, dff |-> EmptyDF, df |-> df, df2 |-> d2]
    IN  IF sel.raised THEN fail(df2)
        ELSE IF ConvertBranch(df2, target_currency)
        THEN IF "date" \notin df.cols \/ "date" \notin df2.cols THEN fail(df2)
             ELSE
             LET d2 == ToDatetime(df2)
             IN  IF target_currency \notin d2.cols
                    \/ target_currency \notin df.cols
                    \/ "amount_usd" \notin df.cols
                 THEN fail(d2)
                 ELSE LET dff == [cols |-> df.cols \cup {"target_rate", "amount_converted"},
                                  date_dtype |-> "datetime64",
                                  rows |-> MergeTarget(sel.rows, d2.rows, target_currency)]
                      IN  [raised |-> FALSE, dff |-> dff,
                           df |-> CallerTable(df, dff), df2 |-> d2]
        ELSE IF "amount_usd" \notin df.cols THEN fail(df2)
             ELSE LET dff == [cols |-> df.cols \cup {"amount_converted"},
                              date_dtype |-> df.date_dtype,
                              rows |-> [i \in 1..Len(sel.rows) |->
                                           [amount_converted |-> sel.rows[i].amount_usd]
                                               @@ sel.rows[i]]]
                  IN  [raised |-> FALSE, dff |-> dff,
                       df |-> CallerTable(df, dff), df2 |-> df2]

\* ---------------------------------------------------------- JSON documents

\* Python None in a dcc.Store.
JsonNone == [kind |-> "none", cols |-> {}, date_dtype |-> "none", rows |-> <<>>]

\* DataFrame.to_json(date_format='iso', orient='split'): the columns and the row
\* data; dates and timestamps are written as ISO strings.
\* Numbers are carried exactly: the rounding of floats to ten decimals by
\* to_json is outside this model.
to_json(df) ==
    [kind |-> "json", cols |-> df.cols,
     date_dtype |-> IF "date" \in df.cols THEN "iso" ELSE "none",
     rows |-> df.rows]

\* pd.read_json(doc, orient='split'): a column labelled 'date' is parsed to
\* datetime64.
read_json(doc) ==
    [cols |-> doc.cols,
     date_dtype |-> IF "date" \in doc.cols THEN "datetime64" ELSE "none",
     rows |-> doc.rows]

\* ------------------------------------------------------------ input data

\* A last_hour_activity dict as the transaction file holds it: all five fields,
\* each a number or NaN.
Activity(nt, ta, um, uc, ms) ==
    Dict([k \in ActivityFields |->
             CASE k = "num_transactions"  -> nt
               [] k = "total_amount"      -> ta
               [] k = "unique_merchants"  -> um
               [] k = "unique_countries"  -> uc
               [] k = "max_single_amount" -> ms])

\* A raw transaction record.
RawRow(vc, ch, co, ci, wk, fr, cur, day, amt, cust, dev, lha) ==
    [timestamp |-> [day |-> day, hour |-> 10 + day, ns |-> day % 2],
     amount |-> Rat(amt, 1), currency |-> cur, country |-> co, city |-> ci,
     vendor_category |-> vc, channel |-> ch, is_weekend |-> wk, is_fraud |-> fr,
     customer_id |-> cust, device |-> dev, last_hour_activity |-> lha]

\* The last_hour_activity values of the records.
BusyHour == Activity(Rat(3, 1), Rat(30, 1), Rat(2, 1), Rat(1, 1), Rat(20, 1))
QuietHour == Activity(Rat(1, 1), Rat(2, 1), Rat(1, 1), Rat(1, 1), Rat(2, 1))
PartHour == Activity(Rat(2, 1), NaN, Rat(2, 1), Rat(2, 1), Rat(5, 1))

\* The records the input tables are drawn from: one matching the first value of
\* every filter column, and one differing from it in each filter column; between
\* them they meet every case of the rate lookup (rate present, rate zero, rate
\* missing, date without a rate row, currency without a rate column), and their
\* last_hour_activity is a full dict, a dict with an undefined field, or no dict.
RawRows ==
    { RawRow("Retail", "web", "USA", "NYC", TRUE, TRUE, "EUR", 1, 100, "c1",
             "Chrome", BusyHour),
      RawRow("Travel", "web", "USA", "NYC", TRUE, TRUE, "GBP", 1, 40, "c2",
             "Safari", NotDict),
      RawRow("Retail", "pos", "USA", "NYC", TRUE, TRUE, "EUR", 2, 30, "c1",
             "Chrome", PartHour),
      RawRow("Retail", "web", "UK", "NYC", TRUE, TRUE, "GBP", 2, 50, "c2",
             "Edge", BusyHour),
      RawRow("Retail", "web", "USA", "Unknown City", TRUE, TRUE, "JPY", 1, 700, "c3",
             "Chrome", QuietHour),
      RawRow("Retail", "web", "USA", "NYC", FALSE, TRUE, "EUR", 3, 60, "c1",
             "Safari", NotDict),
      RawRow("Grocery", "mobile", "Japan", "Tokyo", TRUE, FALSE, "GBP", 1, 20, "c3",
             "Edge", QuietHour) }

\* A table of raw records.
RawTable(rows) == [cols |-> RawCols, date_dtype |-> "none", rows |-> rows]

\* All sequences over S of length at most n.
SeqsUpTo(S, n) == UNION {[1..k -> S] : k \in 0..n}

\* One row of the rate table.
RateRow(day, eur, gbp) ==
    [date |-> day, rates |-> [c \in RateCurrencies |-> IF c = "EUR" THEN eur ELSE gbp]]

\* The rate table as read from the rate file: one row per date, the date column
\* holding Python dates.
RateTable(rows) == [cols |-> RateCols, date_dtype |-> "object", rows |-> rows]

\* The rate files the inputs are drawn from: dates 1 and 2 have a row, date 3
\* has none; rates are present, zero or missing.
RateFiles ==
    { [ok |-> TRUE,
       table |-> RateTable(<< RateRow(1, Rat(9, 10), Rat(4, 5)),
                              RateRow(2, Zero, NaN) >>)],
      [ok |-> TRUE,
       table |-> RateTable(<< RateRow(1, Rat(2, 1), NaN),
                              RateRow(2, Rat(1, 2), Zero) >>)] }

\* The values a filter list is built from, per filter column.
FilterValues(c) ==
    CASE c = "vendor_category" -> <<"Retail", "Travel">>
      [] c = "channel"         -> <<"web", "pos">>
      [] c = "country"         -> <<"USA", "UK">>
      [] c = "city"            -> <<"NYC", "Unknown City">>
      [] c = "is_weekend"      -> <<TRUE, FALSE>>
      [] c = "is_fraud"        -> <<TRUE, FALSE>>

\* The filter selections the calls are drawn from: any set A of columns filtered,
\* either by a one-element list with the other filters None, or by a two-element
\* list with the other filters the empty list.
FilterArgs ==
    { [c \in Range(FilterCols) |->
          IF c \in A
          THEN List(IF wide THEN FilterValues(c) ELSE <<FilterValues(c)[1]>>)
          ELSE IF wide THEN List(<<>>) ELSE None] :
      A \in SUBSET Range(FilterCols), wide \in BOOLEAN }

\* The target currencies of the dropdown.
Targets == {"USD"} \cup RateCurrencies

\* ---------------------------------------------------------- update_graphs

\* Series.sum(): the sum of the defined values; undefined values are skipped and
\* the sum of no values is 0.
RECURSIVE SeriesSum(_)
SeriesSum(vals) ==
    IF vals = <<>> THEN Zero
    ELSE IF isna(Head(vals)) THEN SeriesSum(Tail(vals))
    ELSE Add(Head(vals), SeriesSum(Tail(vals)))

\* Series.count(): the number of defined values.
SeriesCount(vals) == Len(SelectSeq(vals, notna))

\* Variant of SeriesMean that counts an undefined value as a zero amount.
SeriesMean_NaNAsZero(vals) ==
    IF Len(vals) = 0 THEN NaN
    ELSE Div(SeriesSum(vals), Rat(Len(vals), 1))

\* Series.mean(): the sum of the defined values over their number; undefined
\* when there is no defined value.
SeriesMean(vals) ==
    IF SeriesCount(vals) = 0 THEN NaN
    ELSE Div(SeriesSum(vals), Rat(SeriesCount(vals), 1))

\* The column col of a row sequence.
Column(rows, col) == [i \in 1..Len(rows) |-> rows[i][col]]

\* dff[dff['is_fraud'] == True] on the row sequence.
FraudRows(rows) == SelectSeq(rows, LAMBDA r : r.is_fraud)

\* x > y on defined values.
Greater(x, y) == x.n * y.d > y.n * x.d

\* Twenty further labels for each of the ranked columns.
CrowdVendors ==
    <<"vendor01", "vendor02", "vendor03", "vendor04", "vendor05", "vendor06",
      "vendor07", "vendor08", "vendor09", "vendor10", "vendor11", "vendor12",
      "vendor13", "vendor14", "vendor15", "vendor16", "vendor17", "vendor18",
      "vendor19", "vendor20">>
CrowdCities ==
    <<"city01", "city02", "city03", "city04", "city05", "city06",
      "city07", "city08", "city09", "city10", "city11", "city12",
      "city13", "city14", "city15", "city16", "city17", "city18",
      "city19", "city20">>
CrowdCountries ==
    <<"country01", "country02", "country03", "country04", "country05", "country06",
      "country07", "country08", "country09", "country10", "country11", "country12",
      "country13", "country14", "country15", "country16", "country17", "country18",
      "country19", "country20">>
CrowdCustomers ==
    <<"cust01", "cust02", "cust03", "cust04", "cust05", "cust06",
      "cust07", "cust08", "cust09", "cust10", "cust11", "cust12",
      "cust13", "cust14", "cust15", "cust16", "cust17", "cust18",
      "cust19", "cust20">>

\* The labels of the ranked columns in the order groupby sorts its keys.
VendorOrder == <<"Amazon", "Uber">> \o CrowdVendors
CityOrder == <<"NYC", "Tokyo", "Unknown City">> \o CrowdCities
CountryOrder == <<"Japan", "UK", "USA">> \o CrowdCountries
CustomerOrder == <<"c1", "c2", "c3">> \o CrowdCustomers

\* The values of a grouping column in the order groupby sorts its keys.
KeyOrder(col) ==
    CASE col = "vendor_category" -> <<"Grocery", "Retail", "Travel">>
      [] col = "vendor_type"     -> <<"airlines", "online", "physical">>
      [] col = "card_type"       -> <<"Basic Debit", "Gold Credit">>
      [] col = "city_size"       -> <<"large", "medium">>
      [] col \in {"is_card_present", "is_outside_home_country",
                  "is_high_risk_vendor"} -> <<FALSE, TRUE>>
      [] col = "vendor"          -> VendorOrder
      [] col = "city"            -> CityOrder
      [] col = "country"         -> CountryOrder
      [] col = "customer_id"     -> CustomerOrder

\* The number of countries of the country chart (line 882).
TopCountries == 20
\* The number of customers of the customer table (line 1011).
TopCustomers == 10

\* Series.nlargest(n) on the entries [key, score] of a series: the n entries with
\* the largest score; among equal scores the entry met first is kept.
NLargest(st, n) ==
    { st[i] : i \in { i \in 1..Len(st) :
        Cardinality({ j \in 1..Len(st) :
                        \/ Greater(st[j].score, st[i].score)
                        \/ (st[j].score = st[i].score /\ j < i) }) < n } }

\* dff['country'].value_counts(): per country, in the order the countries first
\* occur, the number of its rows.
value_counts(rows) ==
    LET size(k) == Len(SelectSeq(rows, LAMBDA r : r.country = k))
    IN  SelectSeq([i \in 1..Len(rows) |->
                      [key |-> rows[i].country,
                       first |-> \A j \in 1..(i - 1) : rows[j].country # rows[i].country,
                       score |-> Rat(size(rows[i].country), 1)]],
                  LAMBDA e : e.first)

\* Lines 881-884: the mean amount_converted per (country, is_fraud) group among
\* the TopCountries countries with the most rows.
country_amounts(rows) ==
    LET top   == {e.key : e \in NLargest(value_counts(rows), TopCountries)}
        grp(p) == SelectSeq(rows, LAMBDA r : r.country = p[1] /\ r.is_fraud = p[2])
    IN  { [country |-> p[1], is_fraud |-> p[2],
           amount_converted |-> SeriesMean(Column(grp(p), "amount_converted"))] :
          p \in {q \in top \X BOOLEAN : grp(q) # <<>>} }

\* Twenty further device labels.
CrowdDevices ==
    <<"dev01", "dev02", "dev03", "dev04", "dev05", "dev06", "dev07", "dev08",
      "dev09", "dev10", "dev11", "dev12", "dev13", "dev14", "dev15", "dev16",
      "dev17", "dev18", "dev19", "dev20">>

\* The device labels, in the order groupby sorts its keys.
DeviceOrder == <<"Chrome", "Edge", "Safari">> \o CrowdDevices

\* Line 818.
min_transactions_for_device_display == 5
\* The number of devices of the device chart (line 820).
TopDevices == 20

\* Variant of EnoughTransactions that keeps every device that has a row.
EnoughTransactions_Any(count) == count >= 1

\* Line 819: the test a device's row count has to pass.
EnoughTransactions(count) == count >= min_transactions_for_device_display

\* Lines 816-817: per device, in key order, the number of fraudulent rows, the
\* number of rows and their quotient.
device_stats(rows) ==
    LET keys == SelectSeq(DeviceOrder,
                          LAMBDA d : \E i \in 1..Len(rows) : rows[i].device = d)
    IN  [i \in 1..Len(keys) |->
            LET g == SelectSeq(rows, LAMBDA r : r.device = keys[i])
            IN  [device |-> keys[i], sum |-> Len(FraudRows(g)), count |-> Len(g),
                 fraud_ratio |-> Rat(Len(FraudRows(g)), Len(g))]]

\* Lines 819-820: the devices with enough rows, sorted by descending fraud ratio
\* (devices of equal ratio in key order), cut to the first TopDevices.
fraud_device(rows) ==
    LET st == SelectSeq(device_stats(rows), LAMBDA e : EnoughTransactions(e.count))
        pos(i) == 1 + Cardinality({ j \in 1..Len(st) :
                        \/ Greater(st[j].fraud_ratio, st[i].fraud_ratio)
                        \/ (st[j].fraud_ratio = st[i].fraud_ratio /\ j < i) })
        sorted == [q \in 1..Len(st) |-> st[CHOOSE i \in 1..Len(st) : pos(i) = q]]
    IN  IF Len(sorted) <= TopDevices THEN sorted ELSE SubSeq(sorted, 1, TopDevices)

\* dff.groupby(col)['is_fraud'].mean(): one entry per value of col that has a
\* row, in key order, holding the share of fraudulent rows among its rows (the
\* mean of no rows is undefined, and a value without rows is no group).
GroupMean(rows, col) ==
    LET order == KeyOrder(col)
        mean(k) == LET g == SelectSeq(rows, LAMBDA r : r[col] = k)
                   IN  IF g = <<>> THEN NaN ELSE Rat(Len(FraudRows(g)), Len(g))
    IN  SelectSeq([i \in 1..Len(order) |-> [key |-> order[i], is_fraud |-> mean(order[i])]],
                  LAMBDA e : notna(e.is_fraud))

\* .sort_values(ascending=False) on the group means: descending fraud rate,
\* entries of equal rate in key order.
SortValues(st) ==
    LET pos(i) == 1 + Cardinality({ j \in 1..Len(st) :
                        \/ Greater(st[j].is_fraud, st[i].is_fraud)
                        \/ (st[j].is_fraud = st[i].is_fraud /\ j < i) })
    IN  [q \in 1..Len(st) |-> st[CHOOSE i \in 1..Len(st) : pos(i) = q]]

\* Lines 776, 913, 925 and 979: the group means, sorted.
fraud_cat(rows) == SortValues(GroupMean(rows, "vendor_category"))
fraud_vendor_type(rows) == SortValues(GroupMean(rows, "vendor_type"))
fraud_card_type(rows) == SortValues(GroupMean(rows, "card_type"))
fraud_city_size(rows) == SortValues(GroupMean(rows, "city_size"))

\* Lines 937, 951 and 965: the group means as groupby returns them.
fraud_card_present(rows) == GroupMean(rows, "is_card_present")
fraud_outside_home(rows) == GroupMean(rows, "is_outside_home_country")
fraud_high_risk_vendor(rows) == GroupMean(rows, "is_high_risk_vendor")

\* The number of vendors and of cities of the two fraud rankings (lines 991
\* and 1001).
TopVendors == 20
TopCities == 20

\* Variant of GroupSize that counts the rows of a key whether fraudulent or not.
GroupSize_AllRows(rows, col) ==
    LET order == KeyOrder(col)
        size(k) == Len(SelectSeq(rows, LAMBDA r : r[col] = k))
    IN  SelectSeq([i \in 1..Len(order) |->
                      [key |-> order[i], score |-> Rat(size(order[i]), 1)]],
                  LAMBDA e : e.score.n > 0)

\* dff[dff['is_fraud'] == True].groupby(col).size(): per value of col with a
\* fraudulent row, in key order, the number of its fraudulent rows.
GroupSize(rows, col) ==
    LET order == KeyOrder(col)
        size(k) == Len(SelectSeq(FraudRows(rows), LAMBDA r : r[col] = k))
    IN  SelectSeq([i \in 1..Len(order) |->
                      [key |-> order[i], score |-> Rat(size(order[i]), 1)]],
                  LAMBDA e : e.score.n > 0)

\* ... .nlargest(n).reset_index(name='count').
FraudCounts(rows, col, n) ==
    { [key |-> e.key, count |-> e.score.n] : e \in NLargest(GroupSize(rows, col), n) }

\* Lines 1011-1012: the sum of amount_converted per customer over the fraudulent
\* rows, customers in key order, for the TopCustomers customers with the largest
\* sums.
top_fraud_customers(rows) ==
    LET fr    == FraudRows(rows)
        order == CustomerOrder
        has(k) == \E i \in 1..Len(fr) : fr[i].customer_id = k
        sum(k) == SeriesSum(Column(SelectSeq(fr, LAMBDA r : r.customer_id = k),
                                   "amount_converted"))
        sums  == SelectSeq([i \in 1..Len(order) |->
                               [key |-> order[i], has |-> has(order[i]),
                                score |-> sum(order[i])]],
                           LAMBDA e : e.has)
    IN  { [customer_id |-> e.key, amount_converted |-> e.score] :
          e \in NLargest(sums, TopCustomers) }

\* Lines 991 and 1001.
top_fraud_vendors(rows) == FraudCounts(rows, "vendor", TopVendors)
top_fraud_cities(rows) == FraudCounts(rows, "city", TopCities)

\* float - float of two defined values.
Sub(x, y) == Rat(x.n * y.d - y.n * x.d, x.d * y.d)

\* Lines 857-859: the rows of the six correlation columns that dropna keeps, the
\* rows in which all five activity fields are defined (is_fraud always is).
df_corr_sample(rows) ==
    SelectSeq(rows, LAMBDA r : \A k \in ActivityFields : notna(r[k]))

\* is_fraud as the number corr() computes with.
AsFloat(b) == IF b THEN Rat(1, 1) ELSE Zero

\* The sum of the products xs[i] * ys[i] of two sequences of defined values.
RECURSIVE SumProd(_, _)
SumProd(xs, ys) ==
    IF xs = <<>> THEN Zero
    ELSE Add(Mul(Head(xs), Head(ys)), SumProd(Tail(xs), Tail(ys)))

\* The Pearson coefficient of two columns of defined values: NaN with fewer than
\* two rows or when a column is constant; otherwise its sign and its square
\* cov^2 / (var_x * var_y), both exact.
Pearson(xs, ys) ==
    LET n   == Rat(Len(xs), 1)
        one == [i \in 1..Len(xs) |-> Rat(1, 1)]
        sx  == SumProd(xs, one)
        sy  == SumProd(ys, one)
        cov == Sub(Mul(n, SumProd(xs, ys)), Mul(sx, sy))
        vx  == Sub(Mul(n, SumProd(xs, xs)), Mul(sx, sx))
        vy  == Sub(Mul(n, SumProd(ys, ys)), Mul(sy, sy))
    IN  IF Len(xs) < 2 \/ vx = Zero \/ vy = Zero
        THEN [nan |-> TRUE, sign |-> 0, sq |-> Zero]
        ELSE [nan |-> FALSE,
              sign |-> IF cov.n > 0 THEN 1 ELSE IF cov.n < 0 THEN -1 ELSE 0,
              sq |-> Div(Mul(cov, cov), Mul(vx, vy))]

\* Line 860: the columns of df_corr_sample.corr(), all six whatever the rows.
corr_columns(rows) == ActivityFields \cup {"is_fraud"}

\* Lines 860-878: the correlation chart.  no_data tells that the figure titled
\* "no data" was built instead of the bars; coef are the values of the bars.
fig_corr(rows) ==
    LET smp  == df_corr_sample(rows)
        cols == corr_columns(smp)
        ys   == [i \in 1..Len(smp) |-> AsFloat(smp[i].is_fraud)]
    IN  [no_data |-> ~("is_fraud" \in cols /\ cols \ {"is_fraud"} # {}),
         usable |-> Len(smp),
         coef |-> [k \in ActivityFields |-> Pearson(Column(smp, k), ys)]]

\* The correlation chart of a run that built none.
NoCorr ==
    [no_data |-> FALSE, usable |-> 0,
     coef |-> [k \in ActivityFields |-> [nan |-> TRUE, sign |-> 0, sq |-> Zero]]]

\* Lines 673-695: the declared outputs of update_graphs, in order.
Outputs ==
    << [id |-> "fraud_overview", property |-> "figure"],
       [id |-> "fraud_ratio_by_category", property |-> "figure"],
       [id |-> "fraud_vs_weekend", property |-> "figure"],
       [id |-> "fraud_by_hour", property |-> "figure"],
       [id |-> "fraud_by_device", property |-> "figure"],
       [id |-> "transaction_amounts", property |-> "figure"],
       [id |-> "transactions_counts", property |-> "figure"],
       [id |-> "last_hour_activity_correlation", property |-> "figure"],
       [id |-> "amount_usd_by_country", property |-> "figure"],
       [id |-> "currency_usage", property |-> "figure"],
       [id |-> "widget-total-transactions", property |-> "children"],
       [id |-> "widget-total-fraud-amount", property |-> "children"],
       [id |-> "widget-fraud-percentage", property |-> "children"],
       [id |-> "widget-avg-transaction-amount", property |-> "children"],
       [id |-> "fraud_by_vendor_type", property |-> "figure"],
       [id |-> "fraud_by_card_type", property |-> "figure"],
       [id |-> "fraud_by_card_present", property |-> "figure"],
       [id |-> "fraud_outside_home_country", property |-> "figure"],
       [id |-> "fraud_high_risk_vendor", property |-> "figure"],
       [id |-> "fraud_by_city_size", property |-> "figure"],
       [id |-> "top_fraudulent_vendors", property |-> "figure"],
       [id |-> "top_fraudulent_cities", property |-> "figure"],
       [id |-> "top_fraudulent_customers", property |-> "figure"] >>

\* A returned value: a go.Figure or a widget string, by the name of the local
\* variable that holds it.
Figure(name) == [kind |-> "figure", name |-> name]
Text(name) == [kind |-> "text", name |-> name]

\* Lines 730-733: the four widget strings.
WidgetVals ==
    << Text("widget_total_transactions_val"), Text("widget_total_fraud_amount_val"),
       Text("widget_fraud_percentage_val"), Text("widget_avg_transaction_amount_val") >>

\* The number of copies of empty_fig in the tuple of line 755.
EmptyFigures == 19

\* Lines 755-757: the tuple returned when the filtered table is empty.
EmptyReturn == [i \in 1..EmptyFigures |-> Figure("empty_fig")] \o WidgetVals

\* Lines 1029-1035: the tuple returned otherwise.
NormalReturn ==
    << Figure("fig_overview"), Figure("fig_fraud_cat"), Figure("fig_fraud_weekend"),
       Figure("fig_fraud_hour"), Figure("fig_fraud_device"), Figure("fig_amounts"),
       Figure("fig_tx_counts"), Figure("fig_corr"),
       Figure("fig_amount_usd_by_country"), Figure("fig_currency_usage") >>
    \o WidgetVals \o
    << Figure("fig_vendor_type_fraud"), Figure("fig_card_type_fraud"),
       Figure("fig_card_present_fraud"), Figure("fig_outside_home_fraud"),
       Figure("fig_high_risk_vendor_fraud"), Figure("fig_fraud_city_size"),
       Figure("fig_top_fraud_vendors"), Figure("fig_top_fraud_cities"),
       Figure("fig_top_fraud_customers") >>

\* What update_graphs hands back when no run has returned.
NoRun ==
    [called |-> FALSE, raised |-> FALSE, source |-> "none", current |-> EmptyDF,
     f |-> [c \in Range(FilterCols) |-> None], target |-> "USD",
     dff |-> EmptyDF, empty_branch |-> FALSE,
     total_transactions |-> 0, total_fraud_amount |-> Zero,
     fraud_percentage |-> Zero, avg_transaction_amount |-> Zero,
     country_amounts |-> {}, top_fraud_customers |-> {}, fraud_device |-> <<>>,
     fig_corr |-> NoCorr, sample_after |-> EmptyDF, returned |-> <<>>]

\* Lines 709-713: the table the run works on, and where it came from.
CurrentDf(full_data_json, sample) ==
    IF full_data_json.kind # "none"
    THEN [source |-> "full", df |-> read_json(full_data_json)]
    ELSE [source |-> "sample", df |-> sample]

\* Lines 715-719: the rate table of the run.
CurrentRates(exchange_rates_json) ==
    IF exchange_rates_json.kind # "none" THEN read_json(exchange_rates_json)
    ELSE EmptyDF

\* Variant of AvgTransactionAmount without the test for an empty table.
AvgTransactionAmount_NoLenTest(rows) ==
    SeriesMean(Column(rows, "amount_converted"))

\* Line 728: the average transaction amount.
AvgTransactionAmount(rows) ==
    IF Len(rows) > 0 THEN SeriesMean(Column(rows, "amount_converted")) ELSE Zero

\* update_graphs(filters, target_currency, full_data_json, exchange_rates_json)
\* with the module-level sample table: the four widget values, the branch taken
\* and the monetary aggregates of the charts; raised when filter_data raises.
\* sample_after is the module-level sample table as the run leaves it: it is
\* the table handed to filter_data when the run works on the sample.  returned
\* is the tuple of the return statement, one value per declared output.
update_graphs(f, target_currency, full_data_json, exchange_rates_json, sample) ==
    LET cur == CurrentDf(full_data_json, sample)
        df2 == CurrentRates(exchange_rates_json)
        fd  == filter_data(cur.df, df2, f, target_currency)
        dff == fd.dff
        base == [NoRun EXCEPT !.called = TRUE, !.source = cur.source,
                              !.current = cur.df, !.f = f,
                              !.target = target_currency,
                              !.sample_after = IF cur.source = "sample"
                                               THEN fd.df ELSE sample]
    IN  IF fd.raised THEN [base EXCEPT !.raised = TRUE]
        ELSE
        LET widgets ==
              [base EXCEPT
                 !.dff = dff,
                 !.total_transactions = Len(dff.rows),
                 !.total_fraud_amount =
                     IF "is_fraud" \in dff.cols
                     THEN SeriesSum(Column(FraudRows(dff.rows), "amount_converted"))
                     ELSE Zero,
                 !.fraud_percentage =
                     IF Len(dff.rows) > 0 /\ "is_fraud" \in dff.cols
                     THEN Rat(100 * Len(FraudRows(dff.rows)), Len(dff.rows))
                     ELSE Zero,
                 !.avg_transaction_amount = AvgTransactionAmount(dff.rows)]
        IN  IF IsEmpty(dff)
            THEN [widgets EXCEPT !.empty_branch = TRUE, !.returned = EmptyReturn]
            ELSE [widgets EXCEPT
                    !.returned = NormalReturn,
                    !.country_amounts = country_amounts(dff.rows),
                    !.top_fraud_customers = top_fraud_customers(dff.rows),
                    !.fraud_device = fraud_device(dff.rows),
                    !.fig_corr = fig_corr(dff.rows)]

\* ------------------------------------------------- load_full_data_to_store

\* Variant of load_full_data_to_store that loads on the first click only.
load_full_data_to_store_FirstClick(n, handle, read, rf, df2g) ==
    IF n = 1
    THEN IF handle = "None" THEN <<JsonNone, JsonNone>>
         ELSE LET pre == preprocess_data(RawTable(Flatten(read)), rf)
              IN  IF pre.raised THEN <<JsonNone, JsonNone>>
                  ELSE <<to_json(pre.df), to_json(pre.df2)>>
    ELSE <<JsonNone, to_json(df2g)>>

\* load_full_data_to_store(n_clicks) once pq_file_global.read() has delivered
\* the row groups in read: the values returned for full-data-store and
\* exchange-rates-store.  handle is pq_file_global, rf the rate file on disk,
\* df2g the module-level rate table.
load_full_data_to_store(n, handle, read, rf, df2g) ==
    IF n > 0
    THEN IF handle = "None" THEN <<JsonNone, JsonNone>>
         ELSE LET pre == preprocess_data(RawTable(Flatten(read)), rf)
              IN  IF pre.raised THEN <<JsonNone, JsonNone>>
                  ELSE <<to_json(pre.df), to_json(pre.df2)>>
    ELSE <<JsonNone, to_json(df2g)>>

\* Variant of StoreWhileReading that publishes the row groups read so far.
StoreWhileReading_Publish(store, read) == to_json(RawTable(Flatten(read)))

\* The value of full-data-store while the callback is still reading: the table
\* read so far is local to the callback, the store keeps its value.
StoreWhileReading(store, read) == store

\* ------------------------------------------------------------ chatbot texts

\* A text is the sequence of the code points of its characters.

\* str.lower(): Latin and Russian capitals become small letters.
lower(s) ==
    [i \in 1..Len(s) |->
        IF s[i] \in 65..90 THEN s[i] + 32
        ELSE IF s[i] \in 1040..1071 THEN s[i] + 32
        ELSE IF s[i] = 1025 THEN 1105
        ELSE s[i]]

\* The keywords of is_relevant_question, in the order of the list.
relevant_keywords ==
    <<
      \* "magistratura"
      <<1084, 1072, 1075, 1080, 1089, 1090, 1088, 1072, 1090, 1091, 1088,
        1072>>,
      \* "itmo"
      <<1080, 1090, 1084, 1086>>,
      \* "iskusstvennyy intellekt"
      <<1080, 1089, 1082, 1091, 1089, 1089, 1090, 1074, 1077, 1085, 1085,
        1099, 1081, 32, 1080, 1085, 1090, 1077, 1083, 1083, 1077, 1082,
        1090>>,
      \* "ii"
      <<1080, 1080>>,
      \* "ai"
      <<97, 105>>,
      \* "postuplenie"
      <<1087, 1086, 1089, 1090, 1091, 1087, 1083, 1077, 1085, 1080, 1077>>,
      \* "uchebnyy plan"
      <<1091, 1095, 1077, 1073, 1085, 1099, 1081, 32, 1087, 1083, 1072,
        1085>>,
      \* "programma"
      <<1087, 1088, 1086, 1075, 1088, 1072, 1084, 1084, 1072>>,
      \* "obuchenie"
      <<1086, 1073, 1091, 1095, 1077, 1085, 1080, 1077>>,
      \* "karera"
      <<1082, 1072, 1088, 1100, 1077, 1088, 1072>>,
      \* "rabota"
      <<1088, 1072, 1073, 1086, 1090, 1072>>,
      \* "zarplata"
      <<1079, 1072, 1088, 1087, 1083, 1072, 1090, 1072>>,
      \* "stoimost"
      <<1089, 1090, 1086, 1080, 1084, 1086, 1089, 1090, 1100>>,
      \* "obshchezhitie"
      <<1086, 1073, 1097, 1077, 1078, 1080, 1090, 1080, 1077>>,
      \* "ekzamen"
      <<1101, 1082, 1079, 1072, 1084, 1077, 1085>>,
      \* "napravlenie"
      <<1085, 1072, 1087, 1088, 1072, 1074, 1083, 1077, 1085, 1080, 1077>>,
      \* "distsiplina"
      <<1076, 1080, 1089, 1094, 1080, 1087, 1083, 1080, 1085, 1072>>,
      \* "kurs"
      <<1082, 1091, 1088, 1089>>,
      \* "predmet"
      <<1087, 1088, 1077, 1076, 1084, 1077, 1090>>,
      \* "institut"
      <<1080, 1085, 1089, 1090, 1080, 1090, 1091, 1090>>,
      \* "dlitelnost"
      <<1076, 1083, 1080, 1090, 1077, 1083, 1100, 1085, 1086, 1089, 1090,
        1100>>,
      \* "yazyk"
      <<1103, 1079, 1099, 1082>>,
      \* "akkreditatsiya"
      <<1072, 1082, 1082, 1088, 1077, 1076, 1080, 1090, 1072, 1094, 1080,
        1103>>,
      \* "menedzher"
      <<1084, 1077, 1085, 1077, 1076, 1078, 1077, 1088>>,
      \* "sotsseti"
      <<1089, 1086, 1094, 1089, 1077, 1090, 1080>>,
      \* "partnery"
      <<1087, 1072, 1088, 1090, 1085, 1077, 1088, 1099>>,
      \* "komanda"
      <<1082, 1086, 1084, 1072, 1085, 1076, 1072>>,
      \* "dostizheniya"
      <<1076, 1086, 1089, 1090, 1080, 1078, 1077, 1085, 1080, 1103>>,
      \* "stipendii"
      <<1089, 1090, 1080, 1087, 1077, 1085, 1076, 1080, 1080>>,
      \* "mezhdunarodnye vozmozhnosti"
      <<1084, 1077, 1078, 1076, 1091, 1085, 1072, 1088, 1086, 1076, 1085,
        1099, 1077, 32, 1074, 1086, 1079, 1084, 1086, 1078, 1085, 1086,
        1089, 1090, 1080>>,
      \* "faq"
      <<102, 97, 113>>,
      \* "voprosy"
      <<1074, 1086, 1087, 1088, 1086, 1089, 1099>>
    >>

\* is_relevant_question(question)
is_relevant_question(question) ==
    \E question_lower \in {lower(question)} :
        \E k \in 1..Len(relevant_keywords) :
            LET keyword == relevant_keywords[k]
            IN  \E i \in 0..(Len(question_lower) - Len(keyword)) :
                    \A j \in 1..Len(keyword) :
                        question_lower[i + j] = keyword[j]

\* The labels of the eight menu buttons of handle_message.
Buttons ==
    [
      \* "(U+1F50D) Sravnit programmy"
      compare |->
        <<128269, 32, 1057, 1088, 1072, 1074, 1085, 1080, 1090, 1100, 32, 1087,
        1088, 1086, 1075, 1088, 1072, 1084, 1084, 1099>>,
      \* "(U+1F4A1) Poluchit rekomendatsii"
      recommendations |->
        <<128161, 32, 1055, 1086, 1083, 1091, 1095, 1080, 1090, 1100, 32, 1088,
        1077, 1082, 1086, 1084, 1077, 1085, 1076, 1072, 1094, 1080, 1080>>,
      \* "(U+1F4DA) Uchebnye plany"
      academic_plans |->
        <<128218, 32, 1059, 1095, 1077, 1073, 1085, 1099, 1077, 32, 1087, 1083,
        1072, 1085, 1099>>,
      \* "(U+1F4B0) Stoimost obucheniya"
      cost |->
        <<128176, 32, 1057, 1090, 1086, 1080, 1084, 1086, 1089, 1090, 1100, 32,
        1086, 1073, 1091, 1095, 1077, 1085, 1080, 1103>>,
      \* "(U+1F3E0) Obshchezhitie"
      dormitory |->
        <<127968, 32, 1054, 1073, 1097, 1077, 1078, 1080, 1090, 1080, 1077>>,
      \* "(U+1F3AF) Karernye vozmozhnosti"
      career |->
        <<127919, 32, 1050, 1072, 1088, 1100, 1077, 1088, 1085, 1099, 1077, 32,
        1074, 1086, 1079, 1084, 1086, 1078, 1085, 1086, 1089, 1090, 1080>>,
      \* "(U+1F4DD) Moy profil"
      profile |->
        <<128221, 32, 1052, 1086, 1081, 32, 1087, 1088, 1086, 1092, 1080, 1083,
        1100>>,
      \* "(U+2753) Pomoshch"
      help |->
        <<10067, 32, 1055, 1086, 1084, 1086, 1097, 1100>>
    ]

\* The texts put to the chatbot, answered by the model and raised by its call.
Texts ==
    [
      \* "AI?"
      ask_ai |-> <<65, 73, 63>>,
      \* "Stoimost?"
      ask_cost |-> <<1057, 1090, 1086, 1080, 1084, 1086, 1089, 1090, 1100, 63>>,
      \* "hello"
      hello |-> <<104, 101, 108, 108, 111>>,
      \* "OK"
      ok |-> <<79, 75>>,
      \* "timeout"
      timeout |-> <<116, 105, 109, 101, 111, 117, 116>>,
      \* "BSc"
      bsc |-> <<66, 83, 99>>,
      \* "ML"
      ml |-> <<77, 76>>
    ]

\* ----------------------------------------------------- ITMOAdmissionChatbot

\* What the chatbot hands back: which text it is, and the part of the text
\* that is not fixed.
Reply(kind, value) == [kind |-> kind, value |-> value]

\* ITMOAdmissionChatbot(): fetched is what the two page fetches delivered.
\* user_profile is the dictionary as the sequence of its items.
ITMOAdmissionChatbot(fetched) ==
    [programs_data |-> fetched, conversation_history |-> <<>>,
     user_profile |-> <<>>]

\* The messages of a call that made none.
NoMessages ==
    [system |-> [programs_data |-> <<>>, user_profile |-> <<>>],
     history |-> <<>>, user |-> <<>>]

\* The messages handed to the model: the system prompt, built from the program
\* data and the profile, the history, and the question.
Messages(self, user_message) ==
    [system |-> [programs_data |-> self.programs_data,
                 user_profile |-> self.user_profile],
     history |-> self.conversation_history, user |-> user_message]

HistoryLimit == 10

\* Variant of LastMessages that keeps the first HistoryLimit messages.
LastMessages_First(history) ==
    IF Len(history) > HistoryLimit
    THEN SubSeq(history, 1, HistoryLimit)
    ELSE history

\* conversation_history[-10:] when the history is longer than 10.
LastMessages(history) ==
    IF Len(history) > HistoryLimit
    THEN SubSeq(history, Len(history) - HistoryLimit + 1, Len(history))
    ELSE history

\* Variant of AfterModelError that keeps the question in the history.
AfterModelError_KeepsQuestion(self, user_message) ==
    [self EXCEPT !.conversation_history =
        Append(@, [role |-> "user", content |-> user_message])]

\* The chatbot after the except branch of get_ai_response.
AfterModelError(self, user_message) == self

\* get_ai_response(user_message).  outcome is what the model call does:
\* [raised |-> FALSE, content] when it answers, [raised |-> TRUE, content] when
\* the call or the read of choices[0] raises, content being str(e).
get_ai_response(self, user_message, outcome) ==
    IF ~is_relevant_question(user_message)
    THEN [self |-> self, response |-> Reply("not_relevant", <<>>),
          model_called |-> FALSE, messages |-> NoMessages]
    ELSE LET messages == Messages(self, user_message)
         IN  IF outcome.raised
             THEN [self |-> AfterModelError(self, user_message),
                   response |-> Reply("ai_error", outcome.content),
                   model_called |-> TRUE, messages |-> messages]
             ELSE LET ai_response == outcome.content
                      appended ==
                          self.conversation_history \o
                          <<[role |-> "user", content |-> user_message],
                            [role |-> "assistant", content |-> ai_response]>>
                  IN  [self |-> [self EXCEPT !.conversation_history =
                                     LastMessages(appended)],
                       response |-> Reply("ai_response", ai_response),
                       model_called |-> TRUE, messages |-> messages]

\* update_user_profile(key, value): the item of the key gets the value, a new
\* key is added at the end.
update_user_profile(self, key, value) ==
    LET items == self.user_profile
    IN  [self EXCEPT !.user_profile =
            IF \E i \in 1..Len(items) : items[i].key = key
            THEN [i \in 1..Len(items) |->
                     IF items[i].key = key THEN [key |-> key, value |-> value]
                     ELSE items[i]]
            ELSE Append(items, [key |-> key, value |-> value])]

\* Variant of get_recommendations that asks the model whatever the profile.
get_recommendations_AlwaysAsks(self, outcome) ==
    [self |-> self,
     response |-> IF outcome.raised
                  THEN Reply("recommendation_error", outcome.content)
                  ELSE Reply("ai_response", outcome.content),
     model_called |-> TRUE,
     messages |-> [Messages(self, <<>>) EXCEPT !.history = <<>>]]

\* get_recommendations()
get_recommendations(self, outcome) ==
    IF self.user_profile = <<>>
    THEN [self |-> self, response |-> Reply("tell_about_yourself", <<>>),
          model_called |-> FALSE, messages |-> NoMessages]
    ELSE [self |-> self,
          response |-> IF outcome.raised
                       THEN Reply("recommendation_error", outcome.content)
                       ELSE Reply("ai_response", outcome.content),
          model_called |-> TRUE,
          messages |-> [Messages(self, <<>>) EXCEPT !.history = <<>>]]

\* get_personal_recommendations(experience, goals)
get_personal_recommendations(self, experience, goals, outcome) ==
    get_recommendations(
        update_user_profile(update_user_profile(self, "background", experience),
                            "goals", goals),
        outcome)

\* compare_programs(): the comparison, with the programs whose data was not
\* loaded.
compare_programs(self) ==
    [self |-> self,
     response |-> Reply(IF self.programs_data.ai.error
                           \/ self.programs_data.ai_product.error
                        THEN "comparison_not_loaded" ELSE "comparison", <<>>),
     model_called |-> FALSE, messages |-> NoMessages]

\* ---------------------------------------------------------- TelegramChatbot

\* The fixed text a handler answers with.
Fixed(self, kind) ==
    [self |-> self, response |-> Reply(kind, <<>>),
     model_called |-> FALSE, messages |-> NoMessages]

\* The items of a profile as one text.
RECURSIVE ProfileText(_)
ProfileText(items) ==
    IF items = <<>> THEN <<>>
    ELSE Head(items).value \o ProfileText(Tail(items))

\* get_profile_info(chatbot)
get_profile_info(chatbot) ==
    IF chatbot.user_profile = <<>>
    THEN Fixed(chatbot, "profile_empty")
    ELSE [Fixed(chatbot, "profile") EXCEPT
             !.response = Reply("profile", ProfileText(chatbot.user_profile))]

\* Variant of SessionOf in which every user talks to one session.
SessionOf_Shared(user_id) == "u1"

\* The key under which user_sessions keeps the session of user_id.
SessionOf(user_id) == user_id

\* user_sessions[user_id] = chatbot
SetSession(user_sessions, user_id, chatbot) ==
    [u \in DOMAIN user_sessions \cup {SessionOf(user_id)} |->
        IF u = SessionOf(user_id) THEN chatbot ELSE user_sessions[u]]

\* start: the sessions afterwards.  fetched is what the page fetches of the
\* new chatbot delivered.
start(user_sessions, user_id, fetched) ==
    SetSession(user_sessions, user_id, ITMOAdmissionChatbot(fetched))

\* handle_message: the sessions afterwards and what was answered.  fetched is
\* used when the session has to be created, outcome when the model is called.
handle_message(user_sessions, user_id, message_text, fetched, outcome) ==
    LET sessions ==
            IF SessionOf(user_id) \notin DOMAIN user_sessions
            THEN SetSession(user_sessions, user_id,
                            ITMOAdmissionChatbot(fetched))
            ELSE user_sessions
        chatbot == sessions[SessionOf(user_id)]
        done ==
            IF message_text = Buttons.compare THEN compare_programs(chatbot)
            ELSE IF message_text = Buttons.recommendations
            THEN get_recommendations(chatbot, outcome)
            ELSE IF message_text = Buttons.academic_plans
            THEN Fixed(chatbot, "academic_plans")
            ELSE IF message_text = Buttons.cost THEN Fixed(chatbot, "cost")
            ELSE IF message_text = Buttons.dormitory THEN Fixed(chatbot, "dormitory")
            ELSE IF message_text = Buttons.career THEN Fixed(chatbot, "career")
            ELSE IF message_text = Buttons.profile THEN get_profile_info(chatbot)
            ELSE IF message_text = Buttons.help THEN Fixed(chatbot, "help")
            ELSE get_ai_response(chatbot, message_text, outcome)
    IN  CHOOSE r \in
            { [user_sessions |-> SetSession(sessions, user_id, d.self),
               response |-> d.response, model_called |-> d.model_called,
               messages |-> d.messages,
               reply_markup |-> message_text # Buttons.help] : d \in {done} } : TRUE

\* ------------------------------------------------------------------ state

VARIABLES
    \* the files on disk
    tx_file,                \* the transaction file: a sequence of row groups
    tx_ok,                  \* whether the transaction file can be opened
    rate_file,              \* the rate file: [ok, table]
    \* the dashboard process
    phase,                  \* "off", "import" (module being loaded), "serving"
    pq_file_global, df_sampled, df2_global,
    n_clicks, full_data_store, exchange_rates_store,
    load_pc,                \* "idle" or "reading": load_full_data_to_store
    load_read,              \* the row groups its read() has delivered so far
    ug,                     \* what the update_graphs run of this step returned
    hist,                   \* history of the load callback
    \* the pipeline called on its own
    p_pc, p_raw, p_pre, p_call, p_res,
    p_pre2,                 \* a second preprocess_data run and its result
    \* the startup sample load, statement by statement
    s_pc,                   \* "off", "start", "reading", "done"
    selected_groups,        \* the row-group numbers random.sample returned
    dfs_sample,             \* the read_row_group calls made so far, in order
    \* the device ranking on its own
    d_pc, d_dff, fraud_dev,
    \* the group charts and rankings on their own
    c_pc, c_dff, charts,
    \* one ITMOAdmissionChatbot used on its own
    b_pc,                   \* "off" or "on"
    bot,                    \* the chatbot
    answered,               \* the exchanges the model has answered, in order
    last_call,              \* the latest call of the chatbot and its result
    \* the Telegram front end
    t_pc,                   \* "off" or "polling"
    user_sessions,          \* user id -> that user's chatbot
    tg_exchanges,           \* how many exchanges the model has answered
    tg_last                 \* the latest update handled and its result

vars == <<tx_file, tx_ok, rate_file, phase, pq_file_global, df_sampled,
          df2_global, n_clicks, full_data_store, exchange_rates_store, load_pc,
          load_read, ug, hist, p_pc, p_raw, p_pre, p_call, p_res, p_pre2,
          s_pc, selected_groups, dfs_sample, d_pc, d_dff, fraud_dev,
          c_pc, c_dff, charts, b_pc, bot, answered, last_call,
          t_pc, user_sessions, tg_exchanges, tg_last>>

fileVars == <<tx_file, tx_ok>>
appVars == <<phase, pq_file_global, df_sampled, df2_global, n_clicks,
             full_data_store, exchange_rates_store, load_pc, load_read, ug, hist>>
pipeVars == <<p_pc, p_raw, p_pre, p_call, p_res, p_pre2>>
sampVars == <<s_pc, selected_groups, dfs_sample>>
devVars == <<d_pc, d_dff, fraud_dev>>
chartVars == <<c_pc, c_dff, charts>>
botVars == <<b_pc, bot, answered, last_call>>
tgVars == <<t_pc, user_sessions, tg_exchanges, tg_last>>

NoHist == [loads |-> 0, full_returned |-> FALSE, files_changed |-> FALSE,
           first |-> <<JsonNone, JsonNone>>, sample0 |-> EmptyDF, rates0 |-> EmptyDF]

NoPre == [raised |-> FALSE, df |-> EmptyDF, df2 |-> EmptyDF, arg |-> EmptyDF]
NoCall == [df |-> EmptyDF, df2 |-> EmptyDF, df2_kind |-> "none",
           f |-> [c \in Range(FilterCols) |-> None], target |-> "USD"]
NoRes == [raised |-> FALSE, dff |-> EmptyDF, df |-> EmptyDF, df2 |-> EmptyDF]
NoPre2 == [fresh |-> FALSE, rf1 |-> [ok |-> FALSE, table |-> EmptyDF], res |-> NoPre]

\* Lines 10-12 and the layout's initial store values.
AppOff ==
    /\ phase = "off" /\ pq_file_global = "None"
    /\ df_sampled = EmptyDF /\ df2_global = EmptyDF
    /\ n_clicks = 0 /\ full_data_store = JsonNone /\ exchange_rates_store = JsonNone
    /\ load_pc = "idle" /\ load_read = <<>> /\ ug = NoRun /\ hist = NoHist

PipeOff ==
    /\ p_pc = "off" /\ p_raw = EmptyDF /\ p_pre = NoPre
    /\ p_call = NoCall /\ p_res = NoRes /\ p_pre2 = NoPre2

SampOff == s_pc = "off" /\ selected_groups = <<>> /\ dfs_sample = <<>>

DevOff == d_pc = "off" /\ d_dff = EmptyDF /\ fraud_dev = <<>>

\* The charts of a table for which none has been built.
NoCharts ==
    [fraud_cat |-> <<>>, fraud_vendor_type |-> <<>>, fraud_card_type |-> <<>>,
     fraud_card_present |-> <<>>, fraud_outside_home |-> <<>>,
     fraud_high_risk_vendor |-> <<>>, fraud_city_size |-> <<>>,
     top_fraud_vendors |-> {}, top_fraud_cities |-> {},
     top_fraud_customers |-> {}, country_amounts |-> {}]

ChartOff == c_pc = "off" /\ c_dff = EmptyDF /\ charts = NoCharts

\* What the two page fetches of a new chatbot can deliver: both programs
\* loaded, or both marked with an error.
FetchOutcomes ==
    { [ai |-> [error |-> e], ai_product |-> [error |-> e]] : e \in BOOLEAN }

Loaded == [ai |-> [error |-> FALSE], ai_product |-> [error |-> FALSE]]

\* What a call of the model can do: answer, or raise.
Outcomes ==
    { [raised |-> FALSE, content |-> Texts.ok],
      [raised |-> TRUE, content |-> Texts.timeout] }

NoBotCall ==
    [op |-> "none", message |-> <<>>, raised |-> FALSE,
     response |-> Reply("none", <<>>), model_called |-> FALSE,
     before |-> ITMOAdmissionChatbot(Loaded)]

BotOff ==
    /\ b_pc = "off" /\ bot = ITMOAdmissionChatbot(Loaded)
    /\ answered = <<>> /\ last_call = NoBotCall

\* The empty dictionary of sessions.
NoSessions == [u \in {} |-> ITMOAdmissionChatbot(Loaded)]

NoUpdate ==
    [handler |-> "none", user_id |-> "none", message_text |-> <<>>,
     response |-> Reply("none", <<>>), model_called |-> FALSE,
     messages |-> NoMessages, reply_markup |-> FALSE, before |-> NoSessions]

TgOff ==
    /\ t_pc = "off" /\ user_sessions = NoSessions
    /\ tg_exchanges = 0 /\ tg_last = NoUpdate

\* ------------------------------------------------- the pipeline on its own

\* The rate table handed to filter_data: the one preprocess_data returned, the
\* one read back from the exchange-rates store, or the empty table used when
\* the store holds None.
RateArg(kind, df2) ==
    CASE kind = "returned" -> df2
      [] kind = "store"    -> read_json(to_json(df2))
      [] kind = "missing"  -> EmptyDF

PipeInit ==
    /\ tx_file = <<>> /\ tx_ok = TRUE
    /\ rate_file \in RateFiles
    /\ AppOff
    /\ p_pc = "raw"
    /\ p_raw \in {RawTable(rows) : rows \in SeqsUpTo(RawRows, MaxRows)}
    /\ p_pre = NoPre /\ p_call = NoCall /\ p_res = NoRes /\ p_pre2 = NoPre2
    /\ SampOff /\ DevOff /\ ChartOff /\ BotOff /\ TgOff

PreprocessCall ==
    /\ p_pc = "raw"
    /\ p_pre' = preprocess_data(p_raw, rate_file)
    /\ p_pc' = "preprocessed"
    /\ UNCHANGED <<p_raw, p_call, p_res, p_pre2, rate_file, fileVars, appVars,
                   sampVars, devVars,
                   chartVars,
                   botVars, tgVars>>

FilterCall ==
    /\ p_pc = "preprocessed"
    /\ ~p_pre.raised
    /\ \E f \in FilterArgs, target \in Targets,
          kind \in {"returned", "store", "missing"} :
          LET df2 == RateArg(kind, p_pre.df2)
          IN  /\ p_call' = [df |-> p_pre.df, df2 |-> df2, df2_kind |-> kind,
                            f |-> f, target |-> target]
              /\ p_res' = filter_data(p_pre.df, df2, f, target)
    /\ p_pc' = "filtered"
    /\ UNCHANGED <<p_raw, p_pre, p_pre2, rate_file, fileVars, appVars, sampVars,
                   devVars,
                   chartVars,
                   botVars, tgVars>>

\* preprocess_data is called a second time, with the rate file then on disk: on
\* a table equal to the one the first call was given (fresh), or on the table
\* object of the first call as that call left it.
PreprocessAgain ==
    /\ p_pc = "preprocessed"
    /\ \E fresh \in BOOLEAN, rf2 \in RateFiles :
          /\ rate_file' = rf2
          /\ p_pre2' = [fresh |-> fresh, rf1 |-> rate_file,
                        res |-> preprocess_data(IF fresh THEN p_raw ELSE p_pre.arg,
                                                rf2)]
    /\ p_pc' = "again"
    /\ UNCHANGED <<p_raw, p_pre, p_call, p_res, fileVars, appVars, sampVars,
                   devVars,
                   chartVars,
                   botVars, tgVars>>

PipeNext == PreprocessCall \/ FilterCall \/ PreprocessAgain

SpecPipeline == PipeInit /\ [][PipeNext]_vars

\* --------------------------------------------- the two joins on their own

\* The records of the join specification: customer c1's record of each date
\* (dates 1 and 2 have a rate row, date 3 has none) and the legitimate record.
JoinRows == {r \in RawRows : r.customer_id = "c1" \/ ~r.is_fraud}

\* preprocess_data and filter_data are called as in the pipeline specification,
\* on the tables of these records.
JoinInit ==
    /\ tx_file = <<>> /\ tx_ok = TRUE
    /\ rate_file \in RateFiles
    /\ AppOff
    /\ p_pc = "raw"
    /\ p_raw \in {RawTable(rows) : rows \in SeqsUpTo(JoinRows, MaxJoinRows)}
    /\ p_pre = NoPre /\ p_call = NoCall /\ p_res = NoRes /\ p_pre2 = NoPre2
    /\ SampOff /\ DevOff /\ ChartOff /\ BotOff /\ TgOff

JoinNext == PreprocessCall \/ FilterCall

SpecJoin == JoinInit /\ [][JoinNext]_vars

\* ------------------------------------------------------------ the dashboard

\* The sample size of the startup load (line 70).
SampleK == 3

Min(a, b) == IF a < b THEN a ELSE b

\* Variant of Samples that draws with replacement.
Samples_WithReplacement(G, k) == [1..k -> 1..G]

\* random.sample(range(G), k): the sequences of k distinct row-group numbers.
Samples(G, k) ==
    {q \in [1..k -> 1..G] : \A i, j \in 1..k : i # j => q[i] # q[j]}

\* The records the row groups of the transaction file are drawn from.
FileRows ==
    { RawRow("Retail", "web", "USA", "NYC", TRUE, TRUE, "EUR", 1, 100, "c1",
             "Chrome", BusyHour),
      RawRow("Retail", "web", "USA", "NYC", FALSE, TRUE, "EUR", 3, 60, "c1",
             "Safari", NotDict),
      RawRow("Grocery", "mobile", "Japan", "Tokyo", TRUE, FALSE, "GBP", 1, 20, "c3",
             "Edge", QuietHour) }

\* The transaction files: at most MaxGroups row groups of one record each.
TxFiles == {[i \in 1..Len(q) |-> <<q[i]>>] : q \in SeqsUpTo(FileRows, MaxGroups)}

\* The rate file of the dashboard runs.
AppRateTable ==
    RateTable(<< RateRow(1, Rat(9, 10), Rat(4, 5)), RateRow(2, Zero, NaN) >>)

\* Lines 67-79: the startup load with the row groups sel chosen by
\* random.sample; the values of pq_file_global, df_sampled and df2_global.
startup_load(file, file_ok, rf, sel) ==
    LET failed(h) == [pq |-> h, df |-> EmptyDF, df2 |-> EmptyDF]
    IN  IF ~file_ok THEN failed("None")
        ELSE IF Len(sel) = 0 THEN failed("open")
        ELSE LET pre == preprocess_data(
                            RawTable(Flatten([i \in 1..Len(sel) |-> file[sel[i]]])), rf)
             IN  IF pre.raised THEN failed("open")
                 ELSE [pq |-> "open", df |-> pre.df, df2 |-> pre.df2]

\* Lines 82-85: the options of a multi-select dropdown.
Options(sample, col) ==
    IF IsEmpty(sample) THEN {} ELSE {sample.rows[i][col] : i \in 1..Len(sample.rows)}

\* Lines 90-93: the options of the target-currency dropdown.
CurrencyOptions(df2g) ==
    (IF IsEmpty(df2g) THEN {} ELSE df2g.cols \ {"date"}) \cup {"USD"}

\* The filter selections of the dashboard runs: vendor_category and is_fraud may
\* be filtered, and a list holds only values its dropdown offers.
AppFilterArgs(sample) ==
    { f \in FilterArgs :
        /\ \A c \in {"channel", "country", "city", "is_weekend"} : ~Active(f[c])
        /\ Range(f["vendor_category"].vals) \subseteq Options(sample, "vendor_category") }

Init ==
    /\ tx_ok \in BOOLEAN
    /\ rate_file \in {[ok |-> b, table |-> AppRateTable] : b \in BOOLEAN}
    /\ tx_file \in TxFiles
    /\ (~tx_ok \/ ~rate_file.ok) => tx_file = <<>>
    /\ phase = "import" /\ pq_file_global = "None"
    /\ df_sampled = EmptyDF /\ df2_global = EmptyDF
    /\ n_clicks = 0 /\ full_data_store = JsonNone /\ exchange_rates_store = JsonNone
    /\ load_pc = "idle" /\ load_read = <<>> /\ ug = NoRun /\ hist = NoHist
    /\ PipeOff /\ SampOff /\ DevOff /\ ChartOff /\ BotOff /\ TgOff

\* The module is imported: the startup load runs, then the layout is built with
\* the exchange-rates store holding df2_global (line 567).
Startup ==
    /\ phase = "import"
    /\ \E sel \in Samples(Len(tx_file), Min(SampleK, Len(tx_file))) :
          LET st == startup_load(tx_file, tx_ok, rate_file, sel)
          IN  /\ pq_file_global' = st.pq
              /\ df_sampled' = st.df
              /\ df2_global' = st.df2
              /\ exchange_rates_store' = to_json(st.df2)
              /\ hist' = [hist EXCEPT !.sample0 = st.df, !.rates0 = st.df2]
    /\ phase' = "serving"
    /\ UNCHANGED <<n_clicks, full_data_store, load_pc, load_read, ug,
                   rate_file, fileVars, pipeVars,
                   sampVars, devVars,
                   chartVars,
                   botVars, tgVars>>

\* The rate file disappears from the disk.
RemoveRateFile ==
    /\ phase = "serving"
    /\ rate_file.ok
    /\ rate_file' = [rate_file EXCEPT !.ok = FALSE]
    /\ hist' = [hist EXCEPT !.files_changed = TRUE]
    /\ ug' = NoRun
    /\ UNCHANGED <<phase, pq_file_global, df_sampled, df2_global, n_clicks,
                   full_data_store, exchange_rates_store, load_pc, load_read,
                   fileVars, pipeVars,
                   sampVars, devVars,
                   chartVars,
                   botVars, tgVars>>

\* The button is clicked and load_full_data_to_store starts.
ClickLoad ==
    /\ phase = "serving" /\ load_pc = "idle"
    /\ n_clicks < MaxClicks
    /\ n_clicks' = n_clicks + 1
    /\ load_pc' = "reading" /\ load_read' = <<>>
    /\ ug' = NoRun
    /\ UNCHANGED <<phase, pq_file_global, df_sampled, df2_global, full_data_store,
                   exchange_rates_store, hist, rate_file, fileVars, pipeVars,
                   sampVars, devVars,
                   chartVars,
                   botVars, tgVars>>

\* pq_file_global.read() delivers the next row group.
LoadRead ==
    /\ load_pc = "reading" /\ pq_file_global = "open"
    /\ Len(load_read) < Len(tx_file)
    /\ load_read' = Append(load_read, tx_file[Len(load_read) + 1])
    /\ full_data_store' = StoreWhileReading(full_data_store, load_read')
    /\ ug' = NoRun
    /\ UNCHANGED <<phase, pq_file_global, df_sampled, df2_global, n_clicks,
                   exchange_rates_store, load_pc, hist, rate_file, fileVars, pipeVars,
                   sampVars, devVars,
                   chartVars,
                   botVars, tgVars>>

\* load_full_data_to_store returns and both stores take its values.
LoadReturn ==
    /\ load_pc = "reading"
    /\ pq_file_global = "None" \/ Len(load_read) = Len(tx_file)
    /\ LET out == load_full_data_to_store(n_clicks, pq_file_global, load_read,
                                          rate_file, df2_global)
       IN  /\ full_data_store' = out[1]
           /\ exchange_rates_store' = out[2]
           /\ hist' = [hist EXCEPT
                         !.loads = @ + 1,
                         !.full_returned = @ \/ out[1].kind # "none",
                         !.first = IF hist.loads = 0 THEN out ELSE @]
    /\ load_pc' = "idle" /\ load_read' = <<>>
    /\ ug' = NoRun
    /\ UNCHANGED <<phase, pq_file_global, df_sampled, df2_global, n_clicks,
                   rate_file, fileVars, pipeVars,
                   sampVars, devVars,
                   chartVars,
                   botVars, tgVars>>

\* A filter control, the target currency or a store changes and update_graphs
\* runs on the current store values; the callbacks of a session are serialised,
\* so the previous run's outputs have been delivered.
UpdateGraphs ==
    /\ phase = "serving"
    /\ ~ug.called
    /\ \E f \in AppFilterArgs(df_sampled), target \in CurrencyOptions(df2_global) :
          /\ ug' = update_graphs(f, target, full_data_store, exchange_rates_store,
                                 df_sampled)
          /\ df_sampled' = ug'.sample_after
    /\ UNCHANGED <<phase, pq_file_global, df2_global, n_clicks,
                   full_data_store, exchange_rates_store, load_pc, load_read, hist,
                   rate_file, fileVars, pipeVars,
                   sampVars, devVars,
                   chartVars,
                   botVars, tgVars>>

\* The outputs of the last update_graphs run are delivered to the page; the
\* filtered view is discarded.
Render ==
    /\ ug.called
    /\ ug' = NoRun
    /\ UNCHANGED <<phase, pq_file_global, df_sampled, df2_global, n_clicks,
                   full_data_store, exchange_rates_store, load_pc, load_read, hist,
                   rate_file, fileVars, pipeVars,
                   sampVars, devVars,
                   chartVars,
                   botVars, tgVars>>

Next ==
    \/ Startup
    \/ RemoveRateFile
    \/ ClickLoad
    \/ LoadRead
    \/ LoadReturn
    \/ UpdateGraphs
    \/ Render

Spec == Init /\ [][Next]_vars

\* ------------------------------------------- the startup load step by step

\* The transaction files of the sampler specification: at most MaxSampleGroups
\* row groups of one record each.
SamplerFiles ==
    {[i \in 1..Len(q) |-> <<q[i]>>] : q \in SeqsUpTo(FileRows, MaxSampleGroups)}

\* The row-group numbers of the read_row_group calls made so far.
GroupsRead == [i \in 1..Len(dfs_sample) |-> dfs_sample[i].rg]

SamplerInit ==
    /\ tx_ok \in BOOLEAN
    /\ rate_file \in {[ok |-> b, table |-> AppRateTable] : b \in BOOLEAN}
    /\ tx_file \in SamplerFiles
    /\ ~tx_ok => tx_file = <<>>
    /\ phase = "import" /\ pq_file_global = "None"
    /\ df_sampled = EmptyDF /\ df2_global = EmptyDF
    /\ n_clicks = 0 /\ full_data_store = JsonNone /\ exchange_rates_store = JsonNone
    /\ load_pc = "idle" /\ load_read = <<>> /\ ug = NoRun /\ hist = NoHist
    /\ s_pc = "start" /\ selected_groups = <<>> /\ dfs_sample = <<>>
    /\ PipeOff /\ DevOff /\ ChartOff /\ BotOff /\ TgOff

\* Lines 68-71: the file is opened and the row groups are drawn; when the file
\* cannot be opened the handler of lines 76-79 leaves both tables empty.
SamplerOpen ==
    /\ s_pc = "start"
    /\ IF tx_ok
       THEN /\ pq_file_global' = "open"
            /\ \E sel \in Samples(Len(tx_file), Min(SampleK, Len(tx_file))) :
                  selected_groups' = sel
            /\ s_pc' = "reading"
            /\ UNCHANGED <<phase, exchange_rates_store>>
       ELSE /\ pq_file_global' = "None"
            /\ selected_groups' = <<>>
            /\ s_pc' = "done" /\ phase' = "serving"
            /\ exchange_rates_store' = to_json(EmptyDF)
    /\ UNCHANGED <<df_sampled, df2_global, dfs_sample, n_clicks, full_data_store,
                   load_pc, load_read, ug, hist, rate_file, fileVars, pipeVars,
                   devVars,
                   chartVars,
                   botVars, tgVars>>

\* Line 73: read_row_group for the next selected row group.
SamplerRead ==
    /\ s_pc = "reading"
    /\ Len(dfs_sample) < Len(selected_groups)
    /\ LET rg == selected_groups[Len(dfs_sample) + 1]
       IN  dfs_sample' = Append(dfs_sample, [rg |-> rg, rows |-> tx_file[rg]])
    /\ UNCHANGED <<s_pc, selected_groups, phase, pq_file_global, df_sampled,
                   df2_global, n_clicks, full_data_store, exchange_rates_store,
                   load_pc, load_read, ug, hist, rate_file, fileVars, pipeVars,
                   devVars,
                   chartVars,
                   botVars, tgVars>>

\* Lines 74-79: the groups read are concatenated and preprocessed; the module
\* finishes loading and the layout takes df2_global into the rate store.
SamplerConcat ==
    /\ s_pc = "reading"
    /\ Len(dfs_sample) = Len(selected_groups)
    /\ LET st == startup_load(tx_file, tx_ok, rate_file, GroupsRead)
       IN  /\ df_sampled' = st.df
           /\ df2_global' = st.df2
           /\ exchange_rates_store' = to_json(st.df2)
    /\ s_pc' = "done" /\ phase' = "serving"
    /\ UNCHANGED <<selected_groups, dfs_sample, pq_file_global, n_clicks,
                   full_data_store, load_pc, load_read, ug, hist, rate_file,
                   fileVars, pipeVars, devVars,
                   chartVars,
                   botVars, tgVars>>

SamplerNext == SamplerOpen \/ SamplerRead \/ SamplerConcat

SpecSampler == SamplerInit /\ [][SamplerNext]_vars

\* ----------------------------------------------- the device ranking alone

\* n rows of device dev, the first f of them fraudulent.
DeviceBlock(dev, n, f) == [i \in 1..n |-> [device |-> dev, is_fraud |-> i <= f]]

Reverse(q) == [i \in 1..Len(q) |-> q[Len(q) + 1 - i]]

\* Five rows for each of the twenty further devices, device k with k mod 6
\* fraudulent rows.
Crowd ==
    Flatten([k \in 1..Len(CrowdDevices) |-> DeviceBlock(CrowdDevices[k], 5, k % 6)])

\* The filtered tables the ranking is computed on, cut down to the two columns
\* it reads: for each of two devices up to MaxDeviceRows rows, any number of
\* them fraudulent, with or without the rows of the twenty further devices, the
\* rows in key order or in reverse.
TableDevices == <<"Chrome", "Safari">>

DeviceTables ==
    { [cols |-> {"device", "is_fraud"}, date_dtype |-> "none",
       rows |-> LET all == Flatten(b) \o (IF crowd THEN Crowd ELSE <<>>)
                IN  IF rev THEN Reverse(all) ELSE all] :
      rev \in BOOLEAN, crowd \in BOOLEAN,
      b \in { [i \in 1..2 |-> DeviceBlock(TableDevices[i], n[i], f[i])] :
                n \in [1..2 -> 0..MaxDeviceRows],
                f \in [1..2 -> 0..MaxDeviceRows] } }

DevInit ==
    /\ tx_file = <<>> /\ tx_ok = TRUE
    /\ rate_file = [ok |-> TRUE, table |-> AppRateTable]
    /\ AppOff /\ PipeOff /\ SampOff
    /\ d_pc = "table" /\ d_dff \in DeviceTables /\ fraud_dev = <<>>
    /\ ChartOff /\ BotOff /\ TgOff

\* Lines 816-820 on the filtered table.
DeviceRanking ==
    /\ d_pc = "table"
    /\ fraud_dev' = fraud_device(d_dff.rows)
    /\ d_pc' = "ranked"
    /\ UNCHANGED <<d_dff, rate_file, fileVars, appVars, pipeVars, sampVars,
                   chartVars,
                   botVars, tgVars>>

DevNext == DeviceRanking

SpecDevices == DevInit /\ [][DevNext]_vars

\* ------------------------------------- the group charts and rankings alone

\* The columns of the filtered table that the group charts and rankings read.
ChartCols ==
    {"vendor_category", "vendor_type", "card_type", "is_card_present",
     "is_outside_home_country", "is_high_risk_vendor", "city_size", "is_fraud",
     "country", "vendor", "city", "customer_id", "amount_converted"}

\* A row of the filtered table, cut down to these columns.
ChartRow(vc, vt, ct, cp, oh, hr, cs, fr, co, ve, ci, cust, amt) ==
    [vendor_category |-> vc, vendor_type |-> vt, card_type |-> ct,
     is_card_present |-> cp, is_outside_home_country |-> oh,
     is_high_risk_vendor |-> hr, city_size |-> cs, is_fraud |-> fr,
     country |-> co, vendor |-> ve, city |-> ci, customer_id |-> cust,
     amount_converted |-> amt]

\* The rows the free part of a table is drawn from.
ChartRows ==
    { ChartRow("Retail", "online", "Basic Debit", FALSE, FALSE, FALSE, "large",
               FALSE, "USA", "Amazon", "NYC", "c1", Rat(10, 1)),
      ChartRow("Retail", "online", "Gold Credit", FALSE, TRUE, TRUE, "large",
               TRUE, "USA", "Amazon", "NYC", "c1", Rat(50, 1)),
      ChartRow("Travel", "airlines", "Gold Credit", FALSE, TRUE, TRUE, "medium",
               TRUE, "UK", "Uber", "Tokyo", "c2", Rat(100, 1)),
      ChartRow("Grocery", "physical", "Basic Debit", TRUE, FALSE, FALSE, "medium",
               FALSE, "Japan", "Uber", "Tokyo", "c3", Rat(20, 1)),
      ChartRow("Travel", "airlines", "Basic Debit", TRUE, FALSE, TRUE, "large",
               TRUE, "USA", "Uber", "NYC", "c2", NaN),
      ChartRow("Grocery", "physical", "Gold Credit", TRUE, TRUE, FALSE, "medium",
               TRUE, "Japan", "Amazon", "Tokyo", "c3", Rat(5, 1)) }

\* The rows of the k-th further vendor, city, country and customer: k mod 3 + 1
\* fraudulent rows of amount k, followed by a legitimate row when k is even.
ChartBlock(k) ==
    LET row(fr) == ChartRow("Retail", "online", "Basic Debit", FALSE, FALSE, FALSE,
                            "large", fr, CrowdCountries[k], CrowdVendors[k],
                            CrowdCities[k], CrowdCustomers[k], Rat(k, 1))
    IN  [j \in 1..((k % 3) + 1) |-> row(TRUE)]
            \o (IF k % 2 = 0 THEN <<row(FALSE)>> ELSE <<>>)

ChartCrowd == Flatten([k \in 1..Len(CrowdVendors) |-> ChartBlock(k)])

\* The filtered tables the charts are built from: up to MaxChartRows free rows,
\* with or without the rows of the twenty further keys, in this order or in
\* reverse.  update_graphs reaches the charts with a non-empty table only.
ChartTables ==
    { t \in { [cols |-> ChartCols, date_dtype |-> "none",
               rows |-> LET all == free \o (IF crowd THEN ChartCrowd ELSE <<>>)
                        IN  IF rev THEN Reverse(all) ELSE all] :
              rev \in BOOLEAN, crowd \in BOOLEAN,
              free \in SeqsUpTo(ChartRows, MaxChartRows) } :
      t.rows # <<>> }

ChartInit ==
    /\ tx_file = <<>> /\ tx_ok = TRUE
    /\ rate_file = [ok |-> TRUE, table |-> AppRateTable]
    /\ AppOff /\ PipeOff /\ SampOff /\ DevOff
    /\ c_pc = "table" /\ c_dff \in ChartTables /\ charts = NoCharts
    /\ BotOff /\ TgOff

\* Lines 776, 881-884 and 913-1012 on the filtered table.
GroupCharts ==
    /\ c_pc = "table"
    /\ charts' =
          [fraud_cat |-> fraud_cat(c_dff.rows),
           fraud_vendor_type |-> fraud_vendor_type(c_dff.rows),
           fraud_card_type |-> fraud_card_type(c_dff.rows),
           fraud_card_present |-> fraud_card_present(c_dff.rows),
           fraud_outside_home |-> fraud_outside_home(c_dff.rows),
           fraud_high_risk_vendor |-> fraud_high_risk_vendor(c_dff.rows),
           fraud_city_size |-> fraud_city_size(c_dff.rows),
           top_fraud_vendors |-> top_fraud_vendors(c_dff.rows),
           top_fraud_cities |-> top_fraud_cities(c_dff.rows),
           top_fraud_customers |-> top_fraud_customers(c_dff.rows),
           country_amounts |-> country_amounts(c_dff.rows)]
    /\ c_pc' = "charted"
    /\ UNCHANGED <<c_dff, rate_file, fileVars, appVars, pipeVars, sampVars,
                   devVars,
                   botVars, tgVars>>

ChartNext == GroupCharts

SpecCharts == ChartInit /\ [][ChartNext]_vars

\* ------------------------------------------------- the chatbot on its own

\* The questions put to the chatbot: two it takes for relevant, two it does not.
Questions == {Texts.ask_ai, Texts.ask_cost, Texts.hello, <<>>}

BotInit ==
    /\ tx_file = <<>> /\ tx_ok = TRUE
    /\ rate_file = [ok |-> TRUE, table |-> AppRateTable]
    /\ AppOff /\ PipeOff /\ SampOff /\ DevOff /\ ChartOff /\ TgOff
    /\ b_pc = "on" /\ \E fetched \in FetchOutcomes :
                          bot = ITMOAdmissionChatbot(fetched)
    /\ answered = <<>> /\ last_call = NoBotCall

\* One call of get_ai_response.
AskAi ==
    /\ b_pc = "on"
    /\ \E user_message \in Questions, outcome \in Outcomes :
          \E r \in {get_ai_response(bot, user_message, outcome)},
             ok \in {is_relevant_question(user_message) /\ ~outcome.raised} :
              /\ ok => Len(answered) < MaxExchanges
              /\ bot' = r.self
              /\ answered' =
                    IF ok THEN Append(answered, [question |-> user_message,
                                                 answer |-> outcome.content])
                    ELSE answered
              /\ last_call' =
                    [op |-> "get_ai_response", message |-> user_message,
                     raised |-> r.model_called /\ outcome.raised,
                     response |-> r.response,
                     model_called |-> r.model_called, before |-> bot]
    /\ UNCHANGED <<b_pc, rate_file, fileVars, appVars, pipeVars, sampVars,
                   devVars, chartVars, tgVars>>

\* One call of get_personal_recommendations.
PersonalRecommendations ==
    /\ b_pc = "on"
    /\ \E outcome \in Outcomes :
          \E r \in {get_personal_recommendations(bot, Texts.bsc, Texts.ml,
                                                  outcome)} :
              /\ bot' = r.self
              /\ last_call' =
                    [op |-> "get_personal_recommendations", message |-> <<>>,
                     raised |-> r.model_called /\ outcome.raised,
                     response |-> r.response,
                     model_called |-> r.model_called, before |-> bot]
    /\ UNCHANGED <<b_pc, answered, rate_file, fileVars, appVars, pipeVars,
                   sampVars, devVars, chartVars, tgVars>>

\* One call of get_recommendations.
Recommendations ==
    /\ b_pc = "on"
    /\ \E outcome \in Outcomes :
          \E r \in {get_recommendations(bot, outcome)} :
              /\ bot' = r.self
              /\ last_call' =
                    [op |-> "get_recommendations", message |-> <<>>,
                     raised |-> r.model_called /\ outcome.raised,
                     response |-> r.response,
                     model_called |-> r.model_called, before |-> bot]
    /\ UNCHANGED <<b_pc, answered, rate_file, fileVars, appVars, pipeVars,
                   sampVars, devVars, chartVars, tgVars>>

BotNext == AskAi \/ PersonalRecommendations \/ Recommendations

SpecChatbot == BotInit /\ [][BotNext]_vars

\* ------------------------------------------------- the Telegram front end

Users == {"u1", "u2"}

\* The texts users send: the eight buttons and free questions.
TelegramTexts ==
    {Buttons[b] : b \in DOMAIN Buttons}
    \cup {Texts.ask_ai, Texts.ask_cost, Texts.hello}

\* run(): the handlers are registered and no user has a session.
TgInit ==
    /\ tx_file = <<>> /\ tx_ok = TRUE
    /\ rate_file = [ok |-> TRUE, table |-> AppRateTable]
    /\ AppOff /\ PipeOff /\ SampOff /\ DevOff /\ ChartOff /\ BotOff
    /\ t_pc = "polling" /\ user_sessions = NoSessions
    /\ tg_exchanges = 0 /\ tg_last = NoUpdate

\* /start
StartCommand ==
    /\ t_pc = "polling"
    /\ \E user_id \in Users, fetched \in FetchOutcomes :
          /\ user_sessions' = start(user_sessions, user_id, fetched)
          /\ tg_last' =
                [NoUpdate EXCEPT !.handler = "start", !.user_id = user_id,
                                 !.response = Reply("welcome", <<>>),
                                 !.reply_markup = TRUE,
                                 !.before = user_sessions]
    /\ UNCHANGED <<t_pc, tg_exchanges, rate_file, fileVars, appVars, pipeVars,
                   sampVars, devVars, chartVars, botVars>>

\* /help
HelpCommand ==
    /\ t_pc = "polling"
    /\ \E user_id \in Users :
          tg_last' =
              [NoUpdate EXCEPT !.handler = "help_command", !.user_id = user_id,
                               !.response = Reply("help", <<>>),
                               !.before = user_sessions]
    /\ UNCHANGED <<t_pc, user_sessions, tg_exchanges, rate_file, fileVars,
                   appVars, pipeVars, sampVars, devVars, chartVars, botVars>>

\* /profile
ProfileCommand ==
    /\ t_pc = "polling"
    /\ \E user_id \in Users :
          tg_last' =
              [NoUpdate EXCEPT !.handler = "profile_command",
                               !.user_id = user_id,
                               !.response = Reply("profile_setup", <<>>),
                               !.before = user_sessions]
    /\ UNCHANGED <<t_pc, user_sessions, tg_exchanges, rate_file, fileVars,
                   appVars, pipeVars, sampVars, devVars, chartVars, botVars>>

\* A text message.  The page fetches are drawn when a chatbot is constructed,
\* the outcome of the model call in the branches that can make one: free text
\* and the recommendations button.
HandleMessage ==
    /\ t_pc = "polling"
    /\ \E user_id \in Users, message_text \in TelegramTexts :
       \E fetched \in IF SessionOf(user_id) \in DOMAIN user_sessions
                      THEN {Loaded} ELSE FetchOutcomes,
          outcome \in IF /\ \E b \in DOMAIN Buttons : message_text = Buttons[b]
                         /\ message_text # Buttons.recommendations
                      THEN {[raised |-> FALSE, content |-> Texts.ok]}
                      ELSE Outcomes :
          \E r \in {handle_message(user_sessions, user_id, message_text,
                                   fetched, outcome)} :
          \E ok \in {r.model_called /\ ~outcome.raised} :
              /\ ok => tg_exchanges < MaxTelegramExchanges
              /\ user_sessions' = r.user_sessions
              /\ tg_exchanges' = IF ok THEN tg_exchanges + 1 ELSE tg_exchanges
              /\ tg_last' =
                    [handler |-> "handle_message", user_id |-> user_id,
                     message_text |-> message_text, response |-> r.response,
                     model_called |-> r.model_called, messages |-> r.messages,
                     reply_markup |-> r.reply_markup, before |-> user_sessions]
    /\ UNCHANGED <<t_pc, rate_file, fileVars, appVars, pipeVars, sampVars,
                   devVars, chartVars, botVars>>

TgNext == StartCommand \/ HelpCommand \/ ProfileCommand \/ HandleMessage

SpecTelegram == TgInit /\ [][TgNext]_vars

\* ------------------------------------------------------------- properties

\* A filter value restricts when it is a non-empty list.
Restricts(fv) == ~fv.none /\ fv.vals # <<>>

\* Row r satisfies every restricting filter of the selection f.
Qualifies(r, f) ==
    \A c \in Range(FilterCols) :
        Restricts(f[c]) => \E i \in 1..Len(f[c].vals) : f[c].vals[i] = r[c]

\* Row r cut down to the columns of the table it was selected from.
Project(r, fields) == [k \in fields |-> r[k]]

\* The input table is an enriched table, as preprocess_data builds it from at
\* least one record.
Enriched(df) == "amount_usd" \in df.cols

\* The rows of table df as selected by f, stated row by row.
Selected(df, f) == SelectSeq(df.rows, LAMBDA r : Qualifies(r, f))

\* The rows of the result with the added columns dropped.
Kept(res, df) ==
    [i \in 1..Len(res.dff.rows) |->
        Project(res.dff.rows[i], DOMAIN df.rows[1])]

\* C1: filter_data on an enriched table returns exactly the rows that satisfy
\* every restricting filter (a non-empty list restricts to its members, None and
\* the empty list restrict nothing, the restrictions are combined with AND), in
\* the order of the input, none dropped and none added.
C1_FilterExact ==
    (p_pc = "filtered" /\ Enriched(p_call.df)) =>
        /\ ~p_res.raised
        /\ Len(p_res.dff.rows) = Len(Selected(p_call.df, p_call.f))
        /\ Kept(p_res, p_call.df) = Selected(p_call.df, p_call.f)

\* A call with two restricting filters and a non-USD target that keeps one row of
\* a two-row table and drops the other.
C1_Witness ==
    /\ p_pc = "filtered"
    /\ Len(p_call.df.rows) = 2
    /\ Len(p_res.dff.rows) = 1
    /\ Cardinality({c \in Range(FilterCols) : Restricts(p_call.f[c])}) = 2
    /\ \E c \in Range(FilterCols) : p_call.f[c] = List(<<>>)
    /\ p_call.target = "EUR"

\* C4: filter_data leaves both argument tables as they were before the call.
C4_InputsUnchanged ==
    p_pc = "filtered" => (p_res.df = p_call.df /\ p_res.df2 = p_call.df2)

\* The rate of currency cur on date day in rate table t: undefined when t has no
\* column cur or no row for day.
RateOf(t, cur, day) ==
    IF cur \in t.cols \ {"date"} /\ \E i \in 1..Len(t.rows) : t.rows[i].date = day
    THEN LET i == CHOOSE i \in 1..Len(t.rows) : t.rows[i].date = day
         IN  t.rows[i].rates[cur]
    ELSE NaN

\* C5: in the table preprocess_data returns, amount_usd of a row is undefined
\* exactly when the rate table has no rate for the row's currency on the row's
\* date or that rate is zero, and otherwise it is the amount divided by the rate.
C5_AmountUsd ==
    (p_pc = "preprocessed" /\ ~p_pre.raised /\ Enriched(p_pre.df)) =>
        \A i \in 1..Len(p_pre.df.rows) :
            LET r    == p_pre.df.rows[i]
                rate == RateOf(rate_file.table, r.currency, r.timestamp.day)
            IN  /\ isna(r.amount_usd) <=> (isna(rate) \/ rate = Zero)
                /\ notna(r.amount_usd) => Mul(r.amount_usd, rate) = r.amount

\* A preprocessed table with one row converted at a non-zero rate and one row
\* whose rate is zero.
C5_Witness ==
    /\ p_pc = "preprocessed" /\ ~p_pre.raised
    /\ Len(p_pre.df.rows) = 2
    /\ \E i, j \in 1..2 :
          /\ notna(p_pre.df.rows[i].amount_usd)
          /\ RateOf(rate_file.table, p_pre.df.rows[j].currency,
                    p_pre.df.rows[j].timestamp.day) = Zero
          /\ isna(p_pre.df.rows[j].amount_usd)

\* C7: with no restricting filter and target USD, filter_data on an enriched
\* table returns every row once, in order, with amount_converted equal to
\* amount_usd, so the two columns have the same mean.
C7_NoFilterUsd ==
    (/\ p_pc = "filtered" /\ Enriched(p_call.df)
     /\ \A c \in Range(FilterCols) : ~Restricts(p_call.f[c])
     /\ p_call.target = "USD") =>
        /\ ~p_res.raised
        /\ Len(p_res.dff.rows) = Len(p_call.df.rows)
        /\ \A i \in 1..Len(p_call.df.rows) :
              /\ Project(p_res.dff.rows[i], DOMAIN p_call.df.rows[i]) = p_call.df.rows[i]
              /\ p_res.dff.rows[i].amount_converted = p_call.df.rows[i].amount_usd
        /\ SeriesMean(Column(p_res.dff.rows, "amount_converted"))
               = SeriesMean(Column(p_call.df.rows, "amount_usd"))

\* An unfiltered USD call on a two-row table with a defined and an undefined
\* amount_usd, the filters being empty lists.
C7_Witness ==
    /\ p_pc = "filtered" /\ p_call.target = "USD"
    /\ \A c \in Range(FilterCols) : p_call.f[c] = List(<<>>)
    /\ Len(p_res.dff.rows) = 2
    /\ notna(p_res.dff.rows[1].amount_converted)
    /\ isna(p_res.dff.rows[2].amount_converted)

\* The startup load has failed: the sample table and the rate table are empty.
StartupFailed == phase = "serving" /\ df_sampled = EmptyDF /\ df2_global = EmptyDF

\* C2: after a failed startup load every update_graphs run with target USD
\* returns without raising and reports no data: count 0 and the empty figures.
C2_NoDataAfterFailedStartup ==
    (StartupFailed /\ ug.called /\ ug.target = "USD") =>
        (~ug.raised /\ ug.total_transactions = 0 /\ ug.empty_branch)

\* C3: when the loaded table is not empty and no row of it passes the filters,
\* update_graphs does not raise and the four widget values are 0.
C3_EmptyFilteredZeros ==
    (/\ ug.called /\ ~IsEmpty(ug.current)
     /\ \A i \in 1..Len(ug.current.rows) : ~Qualifies(ug.current.rows[i], ug.f)) =>
        /\ ~ug.raised
        /\ ug.empty_branch
        /\ ug.total_transactions = 0
        /\ ug.total_fraud_amount = Zero
        /\ ug.fraud_percentage = Zero
        /\ ug.avg_transaction_amount = Zero

\* A run with a non-USD target on a loaded table of two rows, none of which
\* passes the filters.
C3_Witness ==
    /\ ug.called /\ Len(ug.current.rows) = 2 /\ ug.target = "GBP"
    /\ \A i \in 1..2 : ~Qualifies(ug.current.rows[i], ug.f)
    /\ ug.empty_branch

\* The rate table an update_graphs run works with.
RunRates == CurrentRates(exchange_rates_store)

\* C6: on every row filter_data returns, amount_converted is amount_usd for
\* target USD, amount_usd times the target's rate of the row's date when the
\* target is not USD and the rate table has that rate, and undefined in every
\* other case with a non-USD target (no rate for the date, or an empty rate
\* table).
C6_AmountConverted ==
    (ug.called /\ ~ug.raised) =>
        \A i \in 1..Len(ug.dff.rows) :
            LET r    == ug.dff.rows[i]
                rate == RateOf(RunRates, ug.target, r.date)
            IN  IF ug.target = "USD" THEN r.amount_converted = r.amount_usd
                ELSE IF notna(rate) THEN r.amount_converted = Mul(r.amount_usd, rate)
                ELSE isna(r.amount_converted)

\* The sum of amount_converted over the rows with index in I.
RECURSIVE SumOver(_, _)
SumOver(rows, I) ==
    IF I = {} THEN Zero
    ELSE LET i == CHOOSE i \in I : TRUE
         IN  Add(rows[i].amount_converted, SumOver(rows, I \ {i}))

\* The rows of the filtered table with a defined amount_converted that satisfy P.
DefinedIdx(rows, P(_)) ==
    {i \in 1..Len(rows) : notna(rows[i].amount_converted) /\ P(rows[i])}

\* m is the mean of amount_converted over the rows I alone: undefined when I is
\* empty, and otherwise m times the number of rows in I is their sum.
MeanOver(m, rows, I) ==
    IF I = {} THEN isna(m)
    ELSE notna(m) /\ Mul(m, Rat(Cardinality(I), 1)) = SumOver(rows, I)

\* C8: the monetary aggregates of update_graphs are taken over the rows with a
\* defined amount_converted only: the total fraud amount and the per-customer
\* fraud sums are sums over the defined fraudulent rows, the average amount and
\* the per-(country, is_fraud) means divide by the number of defined rows.
C8_UndefinedExcluded ==
    (ug.called /\ ~ug.raised /\ ~ug.empty_branch) =>
        LET rows == ug.dff.rows
            all(r) == TRUE
            fraud(r) == r.is_fraud
        IN  /\ ug.total_fraud_amount = SumOver(rows, DefinedIdx(rows, fraud))
            /\ MeanOver(ug.avg_transaction_amount, rows, DefinedIdx(rows, all))
            /\ \A e \in ug.country_amounts :
                  LET grp(r) == r.country = e.country /\ r.is_fraud = e.is_fraud
                  IN  MeanOver(e.amount_converted, rows, DefinedIdx(rows, grp))
            /\ \A e \in ug.top_fraud_customers :
                  LET cust(r) == r.is_fraud /\ r.customer_id = e.customer_id
                  IN  e.amount_converted = SumOver(rows, DefinedIdx(rows, cust))

\* A run over two fraudulent rows of one country, one with a defined and one with
\* an undefined amount.
C8_Witness ==
    /\ ug.called /\ ~ug.raised /\ Len(ug.dff.rows) = 2
    /\ \A i \in 1..2 : ug.dff.rows[i].is_fraud /\ ug.dff.rows[i].country = "USA"
    /\ notna(ug.dff.rows[1].amount_converted)
    /\ isna(ug.dff.rows[2].amount_converted)
    /\ notna(ug.avg_transaction_amount)

\* The raw columns of the rows of a table.
RawPart(df) == [i \in 1..Len(df.rows) |-> Project(df.rows[i], RawCols)]

\* The whole transaction file as preprocess_data takes it in.
WholeFile ==
    LET rows == Flatten(tx_file)
    IN  [i \in 1..Len(rows) |-> [rows[i] EXCEPT !.timestamp = FloorSecond(@)]]

\* C9: an update_graphs run that starts before load_full_data_to_store has
\* returned a full table works on the startup sample, and a run that works on
\* the full data has all the rows of the transaction file.
C9_SwitchAfterFullLoad ==
    ug.called =>
        /\ ~hist.full_returned => (ug.source = "sample" /\ ug.current = df_sampled)
        /\ ug.source = "full" => RawPart(ug.current) = WholeFile

\* A run on the sample while the load callback has read one of two row groups.
C9_Witness ==
    /\ ug.called /\ ug.source = "sample" /\ ~IsEmpty(ug.current)
    /\ load_pc = "reading" /\ Len(load_read) = 1 /\ Len(tx_file) = 2

\* C10: as long as the files on disk stay the same, the two stores hold after any
\* number of loads what they held after the first load.
C10_LoadIdempotent ==
    (hist.loads >= 1 /\ ~hist.files_changed) =>
        <<full_data_store, exchange_rates_store>> = hist.first

\* Two loads of a two-row file have returned and the store holds the full table.
C10_Witness ==
    /\ hist.loads = 2 /\ ~hist.files_changed
    /\ full_data_store.kind = "json" /\ Len(full_data_store.rows) = 2

\* The last load_full_data_to_store run has failed: it returned None for the
\* full-data store (n_clicks is positive on every run).
LastLoadFailed == hist.loads >= 1 /\ full_data_store.kind = "none"

\* C11: after a failed full load, the update_graphs run that follows works on an
\* empty data set: it returns without raising and reports no rows.
C11_FailedLoadEmptyResult ==
    (ug.called /\ LastLoadFailed) =>
        (~ug.raised /\ IsEmpty(ug.current) /\ ug.total_transactions = 0)

\* C12: on a file of G row groups the startup load reads min(3, G) row groups,
\* no row group twice and none outside the file, each read delivering that row
\* group; it never reads more, and it has read exactly min(3, G) when it ends.
C12_SamplerReads ==
    LET G == Len(tx_file)
        k == IF G < 3 THEN G ELSE 3
    IN  /\ Len(dfs_sample) <= k
        /\ \A i, j \in 1..Len(dfs_sample) : i # j => GroupsRead[i] # GroupsRead[j]
        /\ \A i \in 1..Len(dfs_sample) :
              /\ GroupsRead[i] \in 1..G
              /\ dfs_sample[i].rows = tx_file[GroupsRead[i]]
        /\ (s_pc = "done" /\ tx_ok) => Len(dfs_sample) = k

\* The load has ended on a file of two row groups, both read once.
C12_Witness ==
    /\ s_pc = "done" /\ Len(tx_file) = 2
    /\ Len(dfs_sample) = 2 /\ GroupsRead[1] # GroupsRead[2]
    /\ Len(df_sampled.rows) = 2

\* The records of the row groups the startup load has read.
RecordsRead == Flatten([i \in 1..Len(dfs_sample) |-> dfs_sample[i].rows])

\* C13: when the rate file cannot be read and the transaction file can, the
\* startup load still keeps every record it read, with amount_usd undefined.
C13_RateFailureKeepsRows ==
    (s_pc = "done" /\ tx_ok /\ ~rate_file.ok) =>
        /\ Len(df_sampled.rows) = Len(RecordsRead)
        /\ \A i \in 1..Len(df_sampled.rows) : isna(df_sampled.rows[i].amount_usd)

\* C14: preprocess_data leaves the table it was called on as it was: the same
\* columns and the same values, the timestamp column included.
C14_InputUnchanged ==
    p_pc \in {"preprocessed", "filtered", "again"} => p_pre.arg = p_raw

C16_MalformedActivityDefaults ==
    (p_pc = "preprocessed" /\ ~p_pre.raised) =>
        /\ Len(p_pre.df.rows) = Len(p_raw.rows)
        /\ \A i \in 1..Len(p_raw.rows) :
              LET x == p_raw.rows[i].last_hour_activity
                  r == p_pre.df.rows[i]
              IN  /\ Project(r, RawCols \ {"timestamp"})
                        = Project(p_raw.rows[i], RawCols \ {"timestamp"})
                  /\ \A k \in ActivityFields :
                        IF x.is_dict THEN r[k] = x.d[k] ELSE isna(r[k])

\* A preprocessed table of a record without a dict followed by a record with
\* one.
C16_Witness ==
    /\ p_pc = "preprocessed" /\ ~p_pre.raised /\ Len(p_raw.rows) = 2
    /\ ~p_raw.rows[1].last_hour_activity.is_dict
    /\ p_raw.rows[2].last_hour_activity.is_dict
    /\ isna(p_pre.df.rows[1].total_amount)
    /\ notna(p_pre.df.rows[2].total_amount)

\* The rows of device d in the filtered table, and the fraudulent ones.
RowsOf(d) == SelectSeq(d_dff.rows, LAMBDA r : r.device = d)
FraudOf(d) == SelectSeq(d_dff.rows, LAMBDA r : r.device = d /\ r.is_fraud)

\* The devices of the ranking.
Ranked == {fraud_dev[i].device : i \in 1..Len(fraud_dev)}

\* C17: the device ranking holds no device with fewer than 5 rows in the
\* filtered table, whatever its fraud ratio; it lists at most 20 devices, each
\* once with its own fraud ratio, in descending order of the ratio, and a device
\* with 5 rows or more is left out only when 20 devices of at least its ratio
\* are listed.
C17_DeviceRanking ==
    d_pc = "ranked" =>
        /\ Len(fraud_dev) <= 20
        /\ \A i \in 1..Len(fraud_dev) :
              LET e == fraud_dev[i]
              IN  /\ Len(RowsOf(e.device)) >= 5
                  /\ e.count = Len(RowsOf(e.device))
                  /\ e.fraud_ratio = Rat(Len(FraudOf(e.device)), Len(RowsOf(e.device)))
        /\ \A i, j \in 1..Len(fraud_dev) :
              i < j => /\ fraud_dev[i].device # fraud_dev[j].device
                       /\ ~Greater(fraud_dev[j].fraud_ratio, fraud_dev[i].fraud_ratio)
        /\ \A d \in Range(DeviceOrder) \ Ranked :
              Len(RowsOf(d)) >= 5 =>
                  /\ Len(fraud_dev) = 20
                  /\ \A i \in 1..20 :
                        ~Greater(Rat(Len(FraudOf(d)), Len(RowsOf(d))),
                                 fraud_dev[i].fraud_ratio)

\* A device with four rows, all fraudulent, is left out; of the twenty-one
\* devices with five rows or more the twenty with the highest ratios are
\* ranked, a device with six rows first.
C17_Witness ==
    /\ d_pc = "ranked"
    /\ Len(RowsOf("Chrome")) = 4 /\ Len(FraudOf("Chrome")) = 4
    /\ "Chrome" \notin Ranked
    /\ Cardinality({d \in Range(DeviceOrder) : Len(RowsOf(d)) >= 5}) = 21
    /\ Len(fraud_dev) = 20
    /\ fraud_dev[1].device = "Safari" /\ fraud_dev[1].count = 6
    /\ Greater(fraud_dev[1].fraud_ratio, fraud_dev[20].fraud_ratio)

\* C18: when the is_fraud filter allows only True, every row of the filtered
\* table is fraudulent; the table is empty exactly when no fraudulent row of the
\* loaded table passes the other filters, and otherwise the fraud percentage
\* is 100.
C18_FraudOnlyFilter ==
    (/\ ug.called /\ ~IsEmpty(ug.current)
     /\ Restricts(ug.f["is_fraud"]) /\ Range(ug.f["is_fraud"].vals) = {TRUE}) =>
        /\ ~ug.raised
        /\ \A i \in 1..Len(ug.dff.rows) : ug.dff.rows[i].is_fraud
        /\ ug.dff.rows = <<>> <=>
              ~\E i \in 1..Len(ug.current.rows) :
                   ug.current.rows[i].is_fraud /\ Qualifies(ug.current.rows[i], ug.f)
        /\ IF ug.dff.rows = <<>>
           THEN ug.empty_branch /\ ug.fraud_percentage = Zero
           ELSE ug.fraud_percentage = Rat(100, 1)

\* A run with the is_fraud filter [True] on a loaded table of a fraudulent and a
\* legitimate row.
C18_Witness ==
    /\ ug.called /\ ug.f["is_fraud"] = List(<<TRUE>>)
    /\ Len(ug.current.rows) = 2
    /\ \E i, j \in 1..2 : ug.current.rows[i].is_fraud /\ ~ug.current.rows[j].is_fraud
    /\ Len(ug.dff.rows) = 1
    /\ ug.fraud_percentage = Rat(100, 1)

\* The rows of the filtered table in which the five activity fields are defined.
UsableRows ==
    {i \in 1..Len(ug.dff.rows) : \A k \in ActivityFields : notna(ug.dff.rows[i][k])}

\* C19: the correlation chart is computed from the rows with all six columns
\* defined, and when there are fewer than two of them or a coefficient is
\* undefined it is the "no data" figure, not a bar chart of coefficients.
C19_CorrelationNoData ==
    (ug.called /\ ~ug.raised /\ ~ug.empty_branch) =>
        /\ ug.fig_corr.usable = Cardinality(UsableRows)
        /\ (\/ Cardinality(UsableRows) < 2
            \/ \E k \in ActivityFields : ug.fig_corr.coef[k].nan)
              => ug.fig_corr.no_data

\* C20: once the module is loaded, df_sampled and df2_global keep the rows,
\* columns and values the startup load gave them, whatever update_graphs and
\* load_full_data_to_store runs follow.
C20_SharedTablesUnchanged ==
    phase = "serving" => (df_sampled = hist.sample0 /\ df2_global = hist.rates0)

\* An update_graphs run that converted the rows of the sample to EUR while
\* load_full_data_to_store was reading the file.
C20_Witness ==
    /\ phase = "serving" /\ ug.called /\ ug.source = "sample" /\ ug.target = "EUR"
    /\ Len(ug.dff.rows) >= 1 /\ "target_rate" \in ug.dff.cols
    /\ load_pc = "reading" /\ n_clicks >= 1

\* The rows of a table that are the transaction of the worked example: amount
\* 100 in EUR on date 1, the date on which one EUR is 0.9 and one GBP 0.8.
ExampleRows(rows) ==
    {i \in 1..Len(rows) :
        /\ rows[i].amount = [nan |-> FALSE, n |-> 100, d |-> 1]
        /\ rows[i].currency = "EUR" /\ rows[i].date = 1
        /\ rows[i].rates["EUR"] = [nan |-> FALSE, n |-> 9, d |-> 10]
        /\ rows[i].rates["GBP"] = [nan |-> FALSE, n |-> 4, d |-> 5]}

\* C21: a transaction of amount 100 in EUR on a date with EUR rate 0.9 gets
\* amount_usd = 100/0.9 = 1000/9 from preprocess_data, and filter_data with target
\* GBP and GBP rate 0.8 on that date gives it amount_converted = 1000/9 * 0.8 =
\* 800/9: the source rate divides, the target rate of the same date multiplies.
C21_WorkedConversion ==
    /\ (p_pc \in {"preprocessed", "filtered"} /\ ~p_pre.raised) =>
          \A i \in ExampleRows(p_pre.df.rows) :
              p_pre.df.rows[i].amount_usd = [nan |-> FALSE, n |-> 1000, d |-> 9]
    /\ (p_pc = "filtered" /\ ~p_res.raised /\ p_call.target = "GBP"
         /\ p_call.df2_kind # "missing") =>
          \A i \in ExampleRows(p_res.dff.rows) :
              /\ p_res.dff.rows[i].target_rate = [nan |-> FALSE, n |-> 4, d |-> 5]
              /\ p_res.dff.rows[i].amount_converted = [nan |-> FALSE, n |-> 800, d |-> 9]

\* The transaction of the example has been preprocessed and then converted to
\* GBP with the rate table read back from the store.
C21_Witness ==
    /\ p_pc = "filtered" /\ ~p_res.raised /\ p_call.target = "GBP"
    /\ p_call.df2_kind = "store"
    /\ ExampleRows(p_res.dff.rows) # {}
    /\ \E i \in ExampleRows(p_res.dff.rows) :
          p_res.dff.rows[i].amount_converted = [nan |-> FALSE, n |-> 800, d |-> 9]

\* The seven categorical dimensions and the chart data built for each.
CategoryDims ==
    {"vendor_category", "vendor_type", "card_type", "is_card_present",
     "is_outside_home_country", "is_high_risk_vendor", "city_size"}

RatesOf(dim) ==
    CASE dim = "vendor_category"         -> charts.fraud_cat
      [] dim = "vendor_type"             -> charts.fraud_vendor_type
      [] dim = "card_type"               -> charts.fraud_card_type
      [] dim = "is_card_present"         -> charts.fraud_card_present
      [] dim = "is_outside_home_country" -> charts.fraud_outside_home
      [] dim = "is_high_risk_vendor"     -> charts.fraud_high_risk_vendor
      [] dim = "city_size"               -> charts.fraud_city_size

\* The rows of the chart table with value k in column dim, and how many of them
\* are fraudulent.
GroupOf(dim, k) == {i \in 1..Len(c_dff.rows) : c_dff.rows[i][dim] = k}
FraudIn(dim, k) == {i \in GroupOf(dim, k) : c_dff.rows[i].is_fraud}

\* C22: for each of the seven categorical dimensions the chart data holds one
\* entry per group of the filtered table, the entry holds the mean of is_fraud
\* over the group, and the entries are in descending order of that fraud rate.
C22_CategoryFraudRates ==
    c_pc = "charted" =>
        \A dim \in CategoryDims :
            LET st == RatesOf(dim)
            IN  /\ {st[i].key : i \in 1..Len(st)}
                      = {c_dff.rows[i][dim] : i \in 1..Len(c_dff.rows)}
                /\ \A i, j \in 1..Len(st) : i # j => st[i].key # st[j].key
                /\ \A i \in 1..Len(st) :
                      st[i].is_fraud.n * Cardinality(GroupOf(dim, st[i].key))
                          = st[i].is_fraud.d * Cardinality(FraudIn(dim, st[i].key))
                /\ \A i, j \in 1..Len(st) :
                      i < j => ~Greater(st[j].is_fraud, st[i].is_fraud)

\* The rate table has one row per date.
OneRowPerDate(t) ==
    \A i, j \in 1..Len(t.rows) : t.rows[i].date = t.rows[j].date => i = j

\* The rate table has a row for date day.
HasRateRow(t, day) == \E i \in 1..Len(t.rows) : t.rows[i].date = day

\* C23: the joins against a rate table with one row per date are left joins
\* that keep the records.  preprocess_data returns one row per input record, in
\* input order, and a record whose date has no rate row is kept with every rate
\* undefined; filter_data with a non-USD target returns the rows it returns
\* with target USD for the same filters, a row without a rate row for its date
\* having an undefined target rate.
C23_LeftJoinsKeepRecords ==
    /\ (p_pc \in {"preprocessed", "filtered"} /\ ~p_pre.raised
         /\ OneRowPerDate(rate_file.table)) =>
          /\ Len(p_pre.df.rows) = Len(p_raw.rows)
          /\ \A i \in 1..Len(p_raw.rows) :
                LET r == p_pre.df.rows[i]
                IN  /\ Project(r, RawCols \ {"timestamp"})
                          = Project(p_raw.rows[i], RawCols \ {"timestamp"})
                    /\ ~HasRateRow(rate_file.table, r.date) =>
                          \A c \in RateCurrencies : isna(r.rates[c])
    /\ (p_pc = "filtered" /\ p_call.target # "USD"
         /\ OneRowPerDate(p_call.df2)) =>
          LET usd == filter_data(p_call.df, p_call.df2, p_call.f, "USD")
          IN  /\ p_res.raised = usd.raised
              /\ Len(p_res.dff.rows) = Len(usd.dff.rows)
              /\ \A i \in 1..Len(usd.dff.rows) :
                    /\ Project(p_res.dff.rows[i], DOMAIN p_call.df.rows[1])
                          = Project(usd.dff.rows[i], DOMAIN p_call.df.rows[1])
                    /\ (p_call.df2_kind # "missing"
                         /\ ~HasRateRow(p_call.df2, usd.dff.rows[i].date)) =>
                          isna(p_res.dff.rows[i].target_rate)

\* A GBP call with a restricting filter keeps both records of a two-record
\* table, one of a date with a rate row and one of a date without.
C23_Witness ==
    /\ p_pc = "filtered" /\ ~p_res.raised /\ p_call.target = "GBP"
    /\ p_call.df2_kind = "returned"
    /\ \E c \in Range(FilterCols) : Restricts(p_call.f[c])
    /\ Len(p_raw.rows) = 2 /\ Len(p_res.dff.rows) = 2
    /\ \E i, j \in 1..2 :
          /\ HasRateRow(p_call.df2, p_res.dff.rows[i].date)
          /\ notna(p_res.dff.rows[i].target_rate)
          /\ ~HasRateRow(p_call.df2, p_res.dff.rows[j].date)
          /\ isna(p_res.dff.rows[j].target_rate)
          /\ isna(p_res.dff.rows[j].rates["EUR"])

\* The values of column col in the chart table, and those with a fraudulent row.
KeysOf(col) == {c_dff.rows[i][col] : i \in 1..Len(c_dff.rows)}
FraudKeysOf(col) == {k \in KeysOf(col) : FraudIn(col, k) # {}}

\* ranking holds at most n entries, one per value of col with a fraudulent row,
\* each with the number of fraudulent rows of its value, and a value with
\* fraudulent rows is left out only when n values with at least as many are in.
TopByFraudCount(ranking, col, n) ==
    /\ Cardinality(ranking) <= n
    /\ \A e \in ranking :
          /\ e.key \in FraudKeysOf(col)
          /\ e.count = Cardinality(FraudIn(col, e.key))
    /\ \A e, g \in ranking : e.key = g.key => e = g
    /\ \A k \in FraudKeysOf(col) \ {e.key : e \in ranking} :
          /\ Cardinality(ranking) = n
          /\ \A e \in ranking : e.count >= Cardinality(FraudIn(col, k))

\* The sum of the defined amounts of customer k's fraudulent rows.
FraudSum(k) ==
    LET cust(r) == r.is_fraud /\ r.customer_id = k
    IN  SumOver(c_dff.rows, DefinedIdx(c_dff.rows, cust))

\* The countries of the country chart.
ChartCountries == {e.country : e \in charts.country_amounts}

\* C24: the vendor ranking and the city ranking hold at most 20 entries, the
\* vendors and cities with the most fraudulent rows, with those counts; the
\* customer ranking holds at most 10 customers, those with the highest sums of
\* amount_converted over their fraudulent rows; and the country chart shows at
\* most 20 countries, those with the most rows.
C24_TopRankings ==
    c_pc = "charted" =>
        /\ TopByFraudCount(charts.top_fraud_vendors, "vendor", 20)
        /\ TopByFraudCount(charts.top_fraud_cities, "city", 20)
        /\ Cardinality(charts.top_fraud_customers) <= 10
        /\ \A e \in charts.top_fraud_customers :
              /\ e.customer_id \in FraudKeysOf("customer_id")
              /\ e.amount_converted = FraudSum(e.customer_id)
        /\ \A k \in FraudKeysOf("customer_id")
                    \ {e.customer_id : e \in charts.top_fraud_customers} :
              /\ Cardinality(charts.top_fraud_customers) = 10
              /\ \A e \in charts.top_fraud_customers :
                    ~Greater(FraudSum(k), e.amount_converted)
        /\ Cardinality(ChartCountries) <= 20
        /\ ChartCountries \subseteq KeysOf("country")
        /\ \A k \in KeysOf("country") \ ChartCountries :
              /\ Cardinality(ChartCountries) = 20
              /\ \A c \in ChartCountries :
                    Cardinality(GroupOf("country", c))
                        >= Cardinality(GroupOf("country", k))

\* A table with twenty-one vendors that have fraudulent rows and one that has
\* only a legitimate row: twenty vendors are ranked, the one without fraud is
\* not among them, ten of more than ten customers are ranked and twenty of more
\* than twenty countries are charted.
C24_Witness ==
    /\ c_pc = "charted"
    /\ Cardinality(FraudKeysOf("vendor")) = 21
    /\ Cardinality(KeysOf("vendor")) = 22
    /\ Cardinality(charts.top_fraud_vendors) = 20
    /\ \E e \in charts.top_fraud_vendors : e.count = 3
    /\ Cardinality(FraudKeysOf("city")) > 20
    /\ Cardinality(charts.top_fraud_cities) = 20
    /\ Cardinality(FraudKeysOf("customer_id")) > 10
    /\ Cardinality(charts.top_fraud_customers) = 10
    /\ Cardinality(KeysOf("country")) > 20
    /\ Cardinality(ChartCountries) = 20

\* C25: once load_full_data_to_store has returned the full table, every later
\* update_graphs run works on the full data and the exchange-rate store keeps a
\* rate table, whatever load triggers follow, a failing load included.
C25_FullDataKept ==
    hist.full_returned =>
        /\ ug.called => ug.source = "full"
        /\ full_data_store.kind # "none"
        /\ exchange_rates_store.kind # "none"

\* The positions of the four widget outputs among the declared outputs.
WidgetPositions == {i \in 1..Len(Outputs) : Outputs[i].property = "children"}

\* C26: on every path update_graphs returns 23 values in the order of its
\* declared outputs: the four widget texts are at the positions of the four
\* widget outputs (11 to 14), in their order, and each of the 19 figure outputs
\* receives a figure.
C26_ReturnOrder ==
    (ug.called /\ ~ug.raised) =>
        /\ Len(Outputs) = 23 /\ WidgetPositions = 11..14
        /\ Len(ug.returned) = 23
        /\ \A i \in 1..4 : ug.returned[10 + i] = WidgetVals[i]
        /\ \A i \in (1..23) \ WidgetPositions : ug.returned[i].kind = "figure"

\* C27: conversation_history never holds more than 10 messages, its length is
\* even, it alternates user and assistant messages starting with a user
\* message, and it is exactly the most recent exchanges the model answered, in
\* order: all of them up to five, the last five after that.
C27_HistoryWindow ==
    LET history == bot.conversation_history
        n == Len(answered)
        k == IF n > 5 THEN 5 ELSE n
    IN  /\ Len(history) <= 10
        /\ Len(history) % 2 = 0
        /\ \A i \in 1..Len(history) :
              history[i].role = IF i % 2 = 1 THEN "user" ELSE "assistant"
        /\ Len(history) = 2 * k
        /\ \A j \in 1..k :
              /\ history[2 * j - 1].content = answered[n - k + j].question
              /\ history[2 * j].content = answered[n - k + j].answer

\* A sixth exchange has been answered and the oldest one, which asked something
\* else than the second, has left the history.
C27_Witness ==
    /\ Len(answered) > 5
    /\ answered[1].question # answered[2].question
    /\ Len(bot.conversation_history) = 10
    /\ bot.conversation_history[1].content = answered[2].question

\* C28: a get_ai_response call that fails leaves the chatbot as it was and
\* returns a text: for a question that is not relevant the model is not called
\* and the fixed refusal comes back, and when the model call raises the error
\* text with the exception's message comes back.
C28_FailuresKeepState ==
    last_call.op = "get_ai_response" =>
        /\ ~is_relevant_question(last_call.message) =>
              /\ bot.conversation_history = last_call.before.conversation_history
              /\ bot.user_profile = last_call.before.user_profile
              /\ ~last_call.model_called
              /\ last_call.response = Reply("not_relevant", <<>>)
        /\ last_call.raised =>
              /\ bot.conversation_history = last_call.before.conversation_history
              /\ bot.user_profile = last_call.before.user_profile
              /\ last_call.model_called
              /\ last_call.response = Reply("ai_error", Texts.timeout)

\* The model call of a relevant question has raised, for a chatbot with
\* exchanges in its history and a profile.
C28_Witness ==
    /\ last_call.op = "get_ai_response"
    /\ last_call.raised
    /\ is_relevant_question(last_call.message)
    /\ bot.conversation_history # <<>>
    /\ bot.user_profile # <<>>

\* The history and the profile of a user's session, empty when there is none.
HistoryOf(sessions, u) ==
    IF u \in DOMAIN sessions THEN sessions[u].conversation_history ELSE <<>>

\* C29: the update of one user leaves every other user's session as it was,
\* present or absent; handle_message gives the sender a session, and what it
\* sends to the model is the sender's own history and profile; /start leaves
\* the sender with a session whose history and profile are empty.
C29_SessionsIsolated ==
    LET a == tg_last.user_id
        before == tg_last.before
    IN  tg_last.handler # "none" =>
            /\ DOMAIN user_sessions \subseteq Users
            /\ \A b \in Users \ {a} :
                  /\ b \in DOMAIN user_sessions <=> b \in DOMAIN before
                  /\ b \in DOMAIN before => user_sessions[b] = before[b]
            /\ tg_last.handler = "handle_message" =>
                  /\ a \in DOMAIN user_sessions
                  /\ tg_last.model_called =>
                        /\ tg_last.messages.history = HistoryOf(before, a)
                        /\ tg_last.messages.system.user_profile = <<>>
                  /\ ~(tg_last.model_called /\ tg_last.response.kind = "ai_response")
                        => HistoryOf(user_sessions, a) = HistoryOf(before, a)
            /\ tg_last.handler = "start" =>
                  /\ a \in DOMAIN user_sessions
                  /\ user_sessions[a].conversation_history = <<>>
                  /\ user_sessions[a].user_profile = <<>>

\* The model has answered a question of u1, u1 already had a history, and u2
\* has a different one.
C29_Witness ==
    /\ tg_last.handler = "handle_message"
    /\ tg_last.user_id = "u1"
    /\ tg_last.response.kind = "ai_response"
    /\ HistoryOf(tg_last.before, "u1") # <<>>
    /\ HistoryOf(user_sessions, "u2") # <<>>
    /\ HistoryOf(user_sessions, "u2") # HistoryOf(tg_last.before, "u1")

====
